---- MODULE Spec2Model ----
(***************************************************************************)
(* A model of the HOA management application: page components that issue   *)
(* queries against the hosted database, and the database's row-level       *)
(* security policies and CHECK constraints from the migrations.            *)
(*                                                                         *)
(* Database tables are sets of rows (records).  Every page component is    *)
(* modelled per browser session; a session is identified with the user     *)
(* that is signed in to it.  Each handler is one action: the query it      *)
(* sends, the policy check the database applies, and the state updates     *)
(* the handler performs afterwards.                                        *)
(***************************************************************************)
EXTENDS Integers, Sequences, FiniteSets, TLC

NULL == "null"

\* ------------------------------------------------------------------------
\* Bounds of the model
\* ------------------------------------------------------------------------
MaxReq == 1          \* maintenance requests ever created in SpecMaint
MaxStored == 2       \* maintenance requests stored or created in SpecStored
MaxPay == 1          \* payments ever created in SpecPay
MaxTx == 2           \* ledger transactions ever inserted in SpecPay
MaxNow == 2          \* the last tick of the clock
MaxLedger == 3       \* stored ledger rows drawn in SpecLedger
MaxDashReq == 6      \* stored maintenance requests drawn in SpecDash
MaxRepTx == 3        \* stored ledger rows drawn in SpecReports
MaxOverduePay == 2   \* stored payments drawn in SpecOverdue
MaxNotif == 3        \* stored notifications drawn in SpecNotif
MaxStmtTx == 2       \* stored ledger rows drawn in SpecStatements
MaxStmtPay == 2      \* stored payments drawn in SpecStatements

TicksPerDay == 2     \* resolution of the clock
DashboardLimit == 5  \* .limit(5) and .slice(0, 5) of the Dashboard
DaysPerMonth == 2    \* length of a month of the model's calendar

\* ------------------------------------------------------------------------
\* profiles table (fixed content): one admin and two residents
\* ------------------------------------------------------------------------
Users == {"admin1", "res1", "res2"}

Role == [u \in Users |-> IF u = "admin1" THEN "admin" ELSE "resident"]

\* EXISTS (SELECT 1 FROM profiles WHERE id = auth.uid() AND role = 'admin')
IsAdminDb(uid) == uid \in Users /\ Role[uid] = "admin"

\* AuthContext: isAdmin of a signed-in session whose profile is loaded
IsAdmin(s) == Role[s] = "admin"

\* the browser sessions of the maintenance screen
MaintSessions == {"admin1", "res1"}

\* a MaintenanceList whose useAuth() gives user = null
NoUser == "anon"

\* ------------------------------------------------------------------------
\* maintenance_requests: columns and form inputs
\* ------------------------------------------------------------------------
Statuses == {"pending", "in_progress", "completed", "cancelled"}
Titles == {"t1", "t2"}

\* the form states an admin of the model submits: the title, the status
\* select and the three admin-only inputs of MaintenanceForm
AdminForms ==
  { [title |-> "t1", status |-> "pending", estimated_cost |-> "",
     scheduled_date |-> "", assigned_vendor |-> ""],
    [title |-> "t2", status |-> "in_progress", estimated_cost |-> "50",
     scheduled_date |-> "d1", assigned_vendor |-> "v1"],
    [title |-> "t2", status |-> "completed", estimated_cost |-> "50",
     scheduled_date |-> "", assigned_vendor |-> "v1"],
    [title |-> "t1", status |-> "cancelled", estimated_cost |-> "",
     scheduled_date |-> "", assigned_vendor |-> ""] }

\* a numeric or date column that is NULL in the database
NoNumber == -1

\* parseFloat on the strings the model types into the cost input
ParseFloat(str) == IF str = "50" THEN 50 ELSE NoNumber

\* estimated_cost?.toString() || '' on the stored values of the model
CostToString(c) == IF c = NoNumber THEN "" ELSE IF c = 50 THEN "50" ELSE "?"

\* x || '' for a nullable text column
OrEmpty(x) == IF x = NULL THEN "" ELSE x

\* x || null for a form string
OrNull(x) == IF x = "" THEN NULL ELSE x

VARIABLES
  db_maintenance_requests,  \* table maintenance_requests
  mrNextId,                 \* next id / created_at of an inserted request
  requests,                 \* MaintenanceList state, per session
  mlLoading,                \* MaintenanceList `loading`, per session
  showForm,                 \* MaintenanceList state, per session
  editingRequest,           \* MaintenanceList state, per session
  deleteConfirmId,          \* MaintenanceList state, per session
  lastMaintOp               \* the query sent in the last step, and its outcome

maintVars == <<db_maintenance_requests, mrNextId, requests, mlLoading,
               showForm, editingRequest, deleteConfirmId, lastMaintOp>>

VARIABLES
  db_payments,        \* table payments
  db_transactions,    \* table transactions
  payNextId,          \* next id of an inserted payment
  txNextId,           \* next id of an inserted transaction
  now,                \* the clock
  payments,           \* PaymentPortal state, per session
  ppLoading,          \* PaymentPortal `loading`, per session
  selectedPayment,    \* PaymentPortal state, per session: {} or {row}
  showPaymentMethod,  \* per session: ids of the cards whose panel is open
  paypalShow,         \* per session: ids of the cards whose PayPal button shows
  lastPayOp           \* the handler run in the last step, and its outcome

payVars == <<db_payments, db_transactions, payNextId, txNextId, now, payments,
             ppLoading, selectedPayment, showPaymentMethod, paypalShow,
             lastPayOp>>

VARIABLES
  user,               \* AuthContext: the signed-in user of the browser, or NULL
  profile,            \* AuthContext: the role of the loaded profile, or NULL
  authLoading,        \* AuthContext `loading`
  activeView,         \* AppContent state
  isMobileOpen,       \* Sidebar state
  isCollapsed         \* Sidebar state

appVars == <<user, profile, authLoading, activeView, isMobileOpen, isCollapsed>>

VARIABLES
  stats,              \* Dashboard state, per session
  fetched,            \* Dashboard: what loadDashboardData received, per session
  recentTransactions, \* Dashboard state, per session
  recentMaintenance,  \* Dashboard state, per session
  dashLoading,        \* Dashboard `loading`, per session
  transactions,       \* TransactionList state, per session
  tlLoading           \* TransactionList `loading`, per session

finVars == <<stats, fetched, recentTransactions, recentMaintenance,
             dashLoading, transactions, tlLoading>>

VARIABLES
  rpTransactions,     \* ReportsPage `transactions`
  rpLoading,          \* ReportsPage `loading`
  dateRange,          \* ReportsPage state
  reportType,         \* ReportsPage state
  tz                  \* the time zone of the browser showing the reports

repVars == <<rpTransactions, rpLoading, dateRange, reportType, tz>>

VARIABLES
  ppFilter,           \* PaymentPortal `filter`, per session
  searchQuery         \* PaymentPortal state, per session

filtVars == <<ppFilter, searchQuery>>

VARIABLES
  db_notifications,   \* table notifications
  notifications,      \* NotificationCenter state, per session
  preferences,        \* NotificationCenter state, per session: {} or {row}
  ncLoading,          \* NotificationCenter `loading`, per session
  ncFilter,           \* NotificationCenter `filter`, per session
  ncSearch,           \* NotificationCenter `searchQuery`, per session
  ncPending,          \* sessions with an undelivered postgres_changes event
  lastNotifOp         \* the handler run in the last step, and its outcome

notifVars == <<db_notifications, notifications, preferences, ncLoading,
               ncFilter, ncSearch, ncPending, lastNotifOp>>

VARIABLES
  fsTransactions,     \* FinancialStatements `transactions`
  fsPayments,         \* FinancialStatements `payments`
  fsLoading,          \* FinancialStatements `loading`
  period              \* FinancialStatements state: 'current' or 'ytd'

stmtVars == <<fsTransactions, fsPayments, fsLoading, period>>

vars == <<maintVars, payVars, appVars, finVars, repVars, filtVars, notifVars,
          stmtVars>>

\* what an action of one screen leaves alone
NotMaint == <<payVars, appVars, finVars, repVars, filtVars, notifVars, stmtVars>>
\* the payment portal's handlers leave its filter and search alone
NotPay == <<maintVars, appVars, finVars, repVars, filtVars, notifVars, stmtVars>>
NotPayPortal == <<maintVars, appVars, finVars, repVars, notifVars, stmtVars>>
NotApp == <<maintVars, payVars, finVars, repVars, filtVars, notifVars, stmtVars>>
\* the dashboard and the transaction list read the tables and write none
NotFin == <<maintVars, payVars, appVars, repVars, filtVars, notifVars, stmtVars>>
\* what the notification center leaves alone
NotNotif == <<maintVars, payVars, appVars, finVars, repVars, filtVars, stmtVars>>
\* the financial statements read the tables and write none
NotStmt == <<maintVars, payVars, appVars, finVars, repVars, filtVars, notifVars>>
\* so does the reports page
NotRep == <<maintVars, payVars, appVars, finVars, filtVars, notifVars, stmtVars>>

\* An optional row (editingRequest, a payload) is a set: {} or {row}.
NoMaintOp == [kind |-> "none", actor |-> NULL, id |-> 0, matched |-> {},
              affected |-> {}, error |-> FALSE, payload |-> {}]

InitMaint ==
  /\ db_maintenance_requests = {}
  /\ mrNextId = 1
  /\ requests = [s \in MaintSessions |-> <<>>]
  /\ mlLoading = [s \in MaintSessions |-> TRUE]
  /\ showForm = [s \in MaintSessions |-> FALSE]
  /\ editingRequest = [s \in MaintSessions |-> {}]
  /\ deleteConfirmId = [s \in MaintSessions |-> 0]
  /\ lastMaintOp = NoMaintOp

\* ------------------------------------------------------------------------
\* Row-level security of maintenance_requests
\* ------------------------------------------------------------------------
\* policy "Users can view own maintenance requests" (property_id is never
\* set by this application, so the property-owner branch selects nothing)
MaintSelectPolicy(uid, row) == row.requested_by = uid \/ IsAdminDb(uid)

\* policy "Authenticated users can create maintenance requests"
MaintInsertPolicy(uid, row) == row.requested_by = uid \/ IsAdminDb(uid)

\* policy "Admins can update maintenance requests" (USING and WITH CHECK)
MaintUpdatePolicy(uid, row) == IsAdminDb(uid)

\* policy "Admins can delete maintenance requests"
MaintDeletePolicy(uid, row) == IsAdminDb(uid)

\* ------------------------------------------------------------------------
\* helpers
\* ------------------------------------------------------------------------
RECURSIVE OrderByCreatedAtDesc(_)
\* .order('created_at', { ascending: false })
OrderByCreatedAtDesc(rows) ==
  IF rows = {} THEN <<>>
  ELSE LET newest == CHOOSE r \in rows : \A q \in rows : q.created_at <= r.created_at
       IN <<newest>> \o OrderByCreatedAtDesc(rows \ {newest})

SeqToSet(sq) == {sq[i] : i \in 1..Len(sq)}

RECURSIVE FilterOutId(_, _)
\* requests.filter(req => req.id !== id)
FilterOutId(sq, id) ==
  IF sq = <<>> THEN <<>>
  ELSE IF Head(sq).id # id THEN <<Head(sq)>> \o FilterOutId(Tail(sq), id)
       ELSE FilterOutId(Tail(sq), id)

\* loadRequests adding the requested_by filter for an admin as well
LoadRequestsResult_OwnOnly(table, s) ==
  OrderByCreatedAtDesc(
    {r \in table : MaintSelectPolicy(s, r) /\ r.requested_by = s})

\* the rows loadRequests receives for session s
LoadRequestsResult(table, s) ==
  OrderByCreatedAtDesc(
    {r \in table :
        /\ MaintSelectPolicy(s, r)
        /\ (IsAdmin(s) \/ r.requested_by = s)})

\* ------------------------------------------------------------------------
\* MaintenanceList
\* ------------------------------------------------------------------------
\* the component is mounted again (navigation away and back): state resets
MaintMount(s) ==
  /\ mlLoading[s] = FALSE
  /\ requests' = [requests EXCEPT ![s] = <<>>]
  /\ mlLoading' = [mlLoading EXCEPT ![s] = TRUE]
  /\ showForm' = [showForm EXCEPT ![s] = FALSE]
  /\ editingRequest' = [editingRequest EXCEPT ![s] = {}]
  /\ deleteConfirmId' = [deleteConfirmId EXCEPT ![s] = 0]
  /\ lastMaintOp' = NoMaintOp
  /\ UNCHANGED <<db_maintenance_requests, mrNextId>>
  /\ UNCHANGED NotMaint

\* loadRequests, run by the mount effect
loadRequests(s, queryError) ==
  /\ mlLoading[s] = TRUE
  /\ IF s = NoUser
     THEN \* if (!user) { setRequests([]); setLoading(false); return; }
          /\ queryError = FALSE
          /\ requests' = [requests EXCEPT ![s] = <<>>]
          /\ lastMaintOp' = [NoMaintOp EXCEPT !.kind = "no_user", !.actor = s]
     ELSE /\ requests' = [requests EXCEPT ![s] =
                            IF queryError THEN @
                            ELSE LoadRequestsResult(db_maintenance_requests, s)]
          /\ lastMaintOp' = [NoMaintOp EXCEPT !.kind = "select", !.actor = s,
                                              !.error = queryError]
  /\ mlLoading' = [mlLoading EXCEPT ![s] = FALSE]
  /\ UNCHANGED <<db_maintenance_requests, mrNextId, showForm, editingRequest,
                 deleteConfirmId>>
  /\ UNCHANGED NotMaint

\* the edit/delete buttons of a displayed row are rendered and enabled
ButtonsShown(s, request) ==
  /\ IsAdmin(s) \/ (request.requested_by = s /\ request.status = "pending")
  /\ ~(~IsAdmin(s) /\ request.status # "pending")

handleEdit(s, request) ==
  /\ mlLoading[s] = FALSE /\ showForm[s] = FALSE
  /\ request \in SeqToSet(requests[s])
  /\ ButtonsShown(s, request)
  /\ editingRequest' = [editingRequest EXCEPT ![s] = {request}]
  /\ showForm' = [showForm EXCEPT ![s] = TRUE]
  /\ lastMaintOp' = NoMaintOp
  /\ UNCHANGED <<db_maintenance_requests, mrNextId, requests, mlLoading,
                 deleteConfirmId>>
  /\ UNCHANGED NotMaint

\* the "New Request" button
NewRequest(s) ==
  /\ mlLoading[s] = FALSE /\ showForm[s] = FALSE
  /\ showForm' = [showForm EXCEPT ![s] = TRUE]
  /\ lastMaintOp' = NoMaintOp
  /\ UNCHANGED <<db_maintenance_requests, mrNextId, requests, mlLoading,
                 editingRequest, deleteConfirmId>>
  /\ UNCHANGED NotMaint

handleFormClose(s) ==
  /\ showForm[s] = TRUE
  /\ showForm' = [showForm EXCEPT ![s] = FALSE]
  /\ editingRequest' = [editingRequest EXCEPT ![s] = {}]
  /\ lastMaintOp' = NoMaintOp
  /\ UNCHANGED <<db_maintenance_requests, mrNextId, requests, mlLoading,
                 deleteConfirmId>>
  /\ UNCHANGED NotMaint

\* the trash button of a displayed row
SetDeleteConfirmId(s, request) ==
  /\ mlLoading[s] = FALSE /\ showForm[s] = FALSE
  /\ request \in SeqToSet(requests[s])
  /\ ButtonsShown(s, request)
  /\ deleteConfirmId' = [deleteConfirmId EXCEPT ![s] = request.id]
  /\ lastMaintOp' = NoMaintOp
  /\ UNCHANGED <<db_maintenance_requests, mrNextId, requests, mlLoading,
                 showForm, editingRequest>>
  /\ UNCHANGED NotMaint

\* the Cancel button of the delete confirmation
CancelDelete(s) ==
  /\ mlLoading[s] = FALSE /\ showForm[s] = FALSE
  /\ deleteConfirmId[s] # 0
  /\ deleteConfirmId' = [deleteConfirmId EXCEPT ![s] = 0]
  /\ lastMaintOp' = NoMaintOp
  /\ UNCHANGED <<db_maintenance_requests, mrNextId, requests, mlLoading,
                 showForm, editingRequest>>
  /\ UNCHANGED NotMaint

\* handleDelete without the status filter on a resident's delete query
DeleteQueryMatches_NoStatusFilter(s, id, row) ==
  /\ row.id = id
  /\ IsAdmin(s) \/ row.requested_by = s

\* the filters handleDelete puts on its delete query
DeleteQueryMatches(s, id, row) ==
  /\ row.id = id
  /\ IsAdmin(s) \/ (row.requested_by = s /\ row.status = "pending")

handleDelete(s, queryError) ==
  /\ mlLoading[s] = FALSE /\ showForm[s] = FALSE
  /\ deleteConfirmId[s] # 0
  /\ \E shown \in SeqToSet(requests[s]) : shown.id = deleteConfirmId[s]
  /\ LET id == deleteConfirmId[s]
         matched == {r \in db_maintenance_requests : DeleteQueryMatches(s, id, r)}
         deleted == IF queryError THEN {}
                    ELSE {r \in matched : MaintSelectPolicy(s, r)
                                          /\ MaintDeletePolicy(s, r)}
     IN /\ db_maintenance_requests' = db_maintenance_requests \ deleted
        /\ lastMaintOp' = [kind |-> "delete", actor |-> s, id |-> id,
                           matched |-> matched, affected |-> deleted,
                           error |-> queryError, payload |-> {}]
        /\ IF queryError
           THEN UNCHANGED <<requests, deleteConfirmId>>
           ELSE /\ requests' = [requests EXCEPT ![s] = FilterOutId(@, id)]
                /\ deleteConfirmId' = [deleteConfirmId EXCEPT ![s] = 0]
  /\ UNCHANGED <<mrNextId, mlLoading, showForm, editingRequest>>
  /\ UNCHANGED NotMaint

\* ------------------------------------------------------------------------
\* MaintenanceForm
\* ------------------------------------------------------------------------
\* the form's initial state, taken from editingRequest (a set: {} or {row})
InitialFormData(editing) ==
  IF editing = {}
  THEN [title |-> "", status |-> "pending", estimated_cost |-> "",
        scheduled_date |-> "", assigned_vendor |-> ""]
  ELSE LET e == CHOOSE r \in editing : TRUE
       IN [title |-> e.title, status |-> e.status,
           estimated_cost |-> CostToString(e.estimated_cost),
           scheduled_date |-> OrEmpty(e.scheduled_date),
           assigned_vendor |-> OrEmpty(e.assigned_vendor)]

\* the form states a session can bring about before it submits: the status
\* select and the three admin inputs change only for an admin; a resident
\* changes the (required) title
FormStates(s, titles, adminForms) ==
  IF IsAdmin(s)
  THEN adminForms
  ELSE {[InitialFormData(editingRequest[s]) EXCEPT !.title = t] : t \in titles}

\* handleSubmit sending the form's status and admin fields for every user
Payload_FormValues(s, formData, editing) ==
  [title |-> formData.title,
   estimated_cost |-> IF formData.estimated_cost # ""
                      THEN ParseFloat(formData.estimated_cost)
                      ELSE NoNumber,
   scheduled_date |-> OrNull(formData.scheduled_date),
   assigned_vendor |-> OrNull(formData.assigned_vendor),
   requested_by |-> IF editing # {} /\ (CHOOSE r \in editing : TRUE).requested_by # NULL
                    THEN (CHOOSE r \in editing : TRUE).requested_by
                    ELSE s,
   status |-> formData.status]

\* the payload handleSubmit builds from formData
Payload(s, formData, editing) ==
  [title |-> formData.title,
   estimated_cost |-> IF IsAdmin(s)
                      THEN (IF formData.estimated_cost # ""
                            THEN ParseFloat(formData.estimated_cost)
                            ELSE NoNumber)
                      ELSE NoNumber,
   scheduled_date |-> IF IsAdmin(s) THEN OrNull(formData.scheduled_date) ELSE NULL,
   assigned_vendor |-> IF IsAdmin(s) THEN OrNull(formData.assigned_vendor) ELSE NULL,
   requested_by |-> IF editing # {} /\ (CHOOSE r \in editing : TRUE).requested_by # NULL
                    THEN (CHOOSE r \in editing : TRUE).requested_by
                    ELSE s,
   status |-> IF IsAdmin(s) THEN formData.status ELSE "pending"]

\* the client-side permission check before the update query
MayUpdate(s, e) ==
  IsAdmin(s) \/ (s = e.requested_by /\ e.status = "pending")

\* handleSubmit adding the owner and status filters for every user
UpdateQueryMatches_AlwaysFiltered(s, id, row) ==
  /\ row.id = id
  /\ row.requested_by = s /\ row.status = "pending"

\* the filters handleSubmit puts on its update query
UpdateQueryMatches(s, id, row) ==
  /\ row.id = id
  /\ IsAdmin(s) \/ (row.requested_by = s /\ row.status = "pending")

\* UPDATE ... SET payload on one row
ApplyPayload(row, payload) ==
  [row EXCEPT !.title = payload.title, !.status = payload.status,
              !.estimated_cost = payload.estimated_cost,
              !.scheduled_date = payload.scheduled_date,
              !.assigned_vendor = payload.assigned_vendor,
              !.requested_by = payload.requested_by]

\* what handleSubmit does after a successful save: onSuccess(), onClose()
AfterSave(s, table, loadError) ==
  /\ requests' = [requests EXCEPT ![s] =
                    IF loadError THEN @ ELSE LoadRequestsResult(table, s)]
  /\ showForm' = [showForm EXCEPT ![s] = FALSE]
  /\ editingRequest' = [editingRequest EXCEPT ![s] = {}]

\* handleSubmit of the form opened by the edit button
SubmitEdit(s, formData, queryError, loadError) ==
  /\ showForm[s] = TRUE /\ editingRequest[s] # {}
  /\ LET e == CHOOSE r \in editingRequest[s] : TRUE
         payload == Payload(s, formData, editingRequest[s])
         matched == {r \in db_maintenance_requests : UpdateQueryMatches(s, e.id, r)}
         updated == IF queryError THEN {}
                    ELSE {r \in matched : MaintSelectPolicy(s, r)
                                          /\ MaintUpdatePolicy(s, r)}
         table == (db_maintenance_requests \ updated)
                    \cup {ApplyPayload(r, payload) : r \in updated}
     IN IF MayUpdate(s, e)
        THEN /\ db_maintenance_requests' = table
             /\ lastMaintOp' = [kind |-> "update", actor |-> s, id |-> e.id,
                                matched |-> matched, affected |-> updated,
                                error |-> queryError, payload |-> {payload}]
             /\ IF queryError
                THEN UNCHANGED <<requests, showForm, editingRequest>>
                ELSE AfterSave(s, table, loadError)
        ELSE \* throw new Error('You do not have permission ...')
             /\ lastMaintOp' = [kind |-> "refused", actor |-> s, id |-> e.id,
                                matched |-> {}, affected |-> {},
                                error |-> TRUE, payload |-> {payload}]
             /\ UNCHANGED <<db_maintenance_requests, requests, showForm,
                            editingRequest>>
  /\ UNCHANGED <<mrNextId, mlLoading, deleteConfirmId>>
  /\ UNCHANGED NotMaint

\* handleSubmit of the form opened by "New Request"; cap bounds the table
SubmitCreate(s, formData, queryError, loadError, cap) ==
  /\ showForm[s] = TRUE /\ editingRequest[s] = {}
  /\ mrNextId <= cap
  /\ LET payload == Payload(s, formData, {})
         row == [id |-> mrNextId, created_at |-> mrNextId,
                 title |-> payload.title, status |-> payload.status,
                 estimated_cost |-> payload.estimated_cost,
                 scheduled_date |-> payload.scheduled_date,
                 assigned_vendor |-> payload.assigned_vendor,
                 requested_by |-> payload.requested_by]
         refused == ~MaintInsertPolicy(s, row)
         failed == queryError \/ refused
         table == IF failed THEN db_maintenance_requests
                  ELSE db_maintenance_requests \cup {row}
     IN /\ db_maintenance_requests' = table
        /\ mrNextId' = IF failed THEN mrNextId ELSE mrNextId + 1
        /\ lastMaintOp' = [kind |-> "insert", actor |-> s, id |-> mrNextId,
                           matched |-> {}, affected |-> {},
                           error |-> failed, payload |-> {payload}]
        /\ IF failed
           THEN UNCHANGED <<requests, showForm, editingRequest>>
           ELSE AfterSave(s, table, loadError)
  /\ UNCHANGED <<mlLoading, deleteConfirmId>>
  /\ UNCHANGED NotMaint

\* what the user of session s can do on the maintenance screen
MaintHandlers(s, titles, adminForms, cap) ==
  \/ MaintMount(s)
  \/ \E e \in BOOLEAN : loadRequests(s, e)
  \/ \E r \in SeqToSet(requests[s]) : handleEdit(s, r)
  \/ NewRequest(s)
  \/ handleFormClose(s)
  \/ \E r \in SeqToSet(requests[s]) : SetDeleteConfirmId(s, r)
  \/ CancelDelete(s)
  \/ \E e \in BOOLEAN : handleDelete(s, e)
  \/ \E f \in FormStates(s, titles, adminForms), qe, le \in BOOLEAN :
       SubmitEdit(s, f, qe, le)
  \/ \E f \in FormStates(s, titles, adminForms), qe, le \in BOOLEAN :
       SubmitCreate(s, f, qe, le, cap)

NextMaint == \E s \in MaintSessions : MaintHandlers(s, Titles, AdminForms, MaxReq)

\* ------------------------------------------------------------------------
\* The maintenance screen over a table that already holds requests
\* ------------------------------------------------------------------------
\* the stored requests the table starts with: a resident's own pending
\* request, one on which an admin has stored a cost, a date and a vendor
\* while it stayed pending, another resident's request in progress, and a
\* request whose requester's profile was deleted (ON DELETE SET NULL)
StoredChoices ==
  { [requested_by |-> "res1", status |-> "pending", estimated_cost |-> NoNumber,
     scheduled_date |-> NULL, assigned_vendor |-> NULL],
    [requested_by |-> "res1", status |-> "pending", estimated_cost |-> 50,
     scheduled_date |-> "d1", assigned_vendor |-> "v1"],
    [requested_by |-> "res2", status |-> "in_progress", estimated_cost |-> 50,
     scheduled_date |-> NULL, assigned_vendor |-> "v1"],
    [requested_by |-> NULL, status |-> "pending", estimated_cost |-> NoNumber,
     scheduled_date |-> NULL, assigned_vendor |-> NULL] }

\* the tables of up to MaxStored rows, created in the order of their ids
StoredTables ==
  UNION { { { [id |-> i, created_at |-> i, title |-> "t1",
               status |-> f[i].status,
               estimated_cost |-> f[i].estimated_cost,
               scheduled_date |-> f[i].scheduled_date,
               assigned_vendor |-> f[i].assigned_vendor,
               requested_by |-> f[i].requested_by] : i \in 1..n }
            : f \in [1..n -> StoredChoices] }
          : n \in 0..MaxStored }

\* the sessions of this screen: the admin, a resident, and no signed-in user
StoredSessions == MaintSessions \cup {NoUser}

\* the forms submitted over the stored table
StoredTitles == {"t2"}
StoredAdminForms == {f \in AdminForms : f.status = "in_progress"}

InitStoredMaint ==
  /\ db_maintenance_requests \in StoredTables
  /\ mrNextId = Cardinality(db_maintenance_requests) + 1
  /\ requests = [s \in StoredSessions |-> <<>>]
  /\ mlLoading = [s \in StoredSessions |-> TRUE]
  /\ showForm = [s \in StoredSessions |-> FALSE]
  /\ editingRequest = [s \in StoredSessions |-> {}]
  /\ deleteConfirmId = [s \in StoredSessions |-> 0]
  /\ lastMaintOp = NoMaintOp

\* App renders the sign-in screen while user is null, so the session without
\* a user only ever mounts the list and runs its load
NextStored ==
  \/ \E s \in MaintSessions :
       MaintHandlers(s, StoredTitles, StoredAdminForms, MaxStored)
  \/ MaintMount(NoUser)
  \/ loadRequests(NoUser, FALSE)

\* ------------------------------------------------------------------------
\* Payments and the ledger: tables
\* ------------------------------------------------------------------------
\* properties table (fixed content): property -> owner_id
Properties == {"prop1", "prop2"}

OwnerOf == [p \in Properties |-> IF p = "prop1" THEN "res1" ELSE "res2"]

PaySessions == {"admin1", "res1"}

\* CHECK (payment_method IN (...)) of payments and of transactions; NULL passes
PaymentMethods == {"cash", "check", "credit_card", "bank_transfer", "online"}

PaymentMethodCheck(m) == m = NULL \/ m \in PaymentMethods

\* the payment types and the amount the model's admin enters in PaymentForm
PaymentTypes == {"monthly_dues", "fine"}
PaymentAmount == 100

\* the clock counts ticks; new Date().toISOString().split('T')[0] is its day
Today(clock) == clock \div TicksPerDay

NoPayOp == [kind |-> "none", actor |-> NULL, id |-> 0, status |-> NULL,
            method |-> NULL, target |-> {}, netError |-> FALSE,
            error |-> FALSE, insertLost |-> FALSE, inserted |-> {}]

InitFilt ==
  /\ ppFilter = [s \in PaySessions |-> "all"]
  /\ searchQuery = [s \in PaySessions |-> ""]

InitPay ==
  /\ InitFilt
  /\ db_payments = {}
  /\ db_transactions = {}
  /\ payNextId = 1
  /\ txNextId = 1
  /\ now = 0
  /\ payments = [s \in PaySessions |-> <<>>]
  /\ ppLoading = [s \in PaySessions |-> TRUE]
  /\ selectedPayment = [s \in PaySessions |-> {}]
  /\ showPaymentMethod = [s \in PaySessions |-> {}]
  /\ paypalShow = [s \in PaySessions |-> {}]
  /\ lastPayOp = NoPayOp

\* ------------------------------------------------------------------------
\* Row-level security of payments and transactions
\* ------------------------------------------------------------------------
OwnsProperty(uid, property_id) ==
  property_id \in Properties /\ OwnerOf[property_id] = uid

\* policy "Property owners can view own payments"
PaymentSelectPolicy(uid, row) ==
  OwnsProperty(uid, row.property_id) \/ IsAdminDb(uid)

\* policy "Admins can insert payments"
PaymentInsertPolicy(uid, row) == IsAdminDb(uid)

\* policies "Admins can update payments" and "Property owners can update own
\* payment status" (permissive policies are combined with OR)
PaymentUpdatePolicy(uid, row) ==
  IsAdminDb(uid) \/ OwnsProperty(uid, row.property_id)

\* policy "Admins can delete payments"
PaymentDeletePolicy(uid, row) == IsAdminDb(uid)

\* policy "Admins can insert transactions"
TransactionInsertPolicy(uid, row) == IsAdminDb(uid)

\* policies "Admins can view all transactions" and "Property owners can view
\* own transactions"
TransactionSelectPolicy(uid, row) ==
  IsAdminDb(uid) \/ OwnsProperty(uid, row.property_id)

\* ------------------------------------------------------------------------
\* PaymentPortal
\* ------------------------------------------------------------------------
RECURSIVE OrderByDueDateDesc(_)
\* .order('due_date', { ascending: false }); equal dates by id
OrderByDueDateDesc(rows) ==
  IF rows = {} THEN <<>>
  ELSE LET first == CHOOSE r \in rows : \A q \in rows :
                      \/ q.due_date < r.due_date
                      \/ (q.due_date = r.due_date /\ q.id <= r.id)
       IN <<first>> \o OrderByDueDateDesc(rows \ {first})

\* the payments loadData receives for session s
LoadDataResult(table, s) ==
  IF IsAdmin(s)
  THEN OrderByDueDateDesc({r \in table : PaymentSelectPolicy(s, r)})
  ELSE LET propertyIds == {p \in Properties : OwnerOf[p] = s}
       IN OrderByDueDateDesc({r \in table : /\ PaymentSelectPolicy(s, r)
                                            /\ r.property_id \in propertyIds})

\* loadData leaves `payments` alone when a query fails and when a resident
\* owns no property
LoadedPayments(table, s, loadError) ==
  IF loadError \/ (~IsAdmin(s) /\ {p \in Properties : OwnerOf[p] = s} = {})
  THEN payments[s]
  ELSE LoadDataResult(table, s)

\* a card keeps its state while its payment is displayed; PayWithPayPal is
\* mounted only while the displayed status is 'pending'
CardsAfter(s, shown) ==
  /\ showPaymentMethod' = [showPaymentMethod EXCEPT ![s] =
                             @ \cap {p.id : p \in SeqToSet(shown)}]
  /\ paypalShow' = [paypalShow EXCEPT ![s] =
                      @ \cap {p.id : p \in {q \in SeqToSet(shown) :
                                               q.status = "pending"}}]

\* the component is mounted again: state resets
PayMount(s) ==
  /\ ppLoading[s] = FALSE
  /\ payments' = [payments EXCEPT ![s] = <<>>]
  /\ ppLoading' = [ppLoading EXCEPT ![s] = TRUE]
  /\ selectedPayment' = [selectedPayment EXCEPT ![s] = {}]
  /\ showPaymentMethod' = [showPaymentMethod EXCEPT ![s] = {}]
  /\ paypalShow' = [paypalShow EXCEPT ![s] = {}]
  /\ lastPayOp' = NoPayOp
  /\ ppFilter' = [ppFilter EXCEPT ![s] = "all"]
  /\ searchQuery' = [searchQuery EXCEPT ![s] = ""]
  /\ UNCHANGED <<db_payments, db_transactions, payNextId, txNextId, now>>
  /\ UNCHANGED NotPayPortal

\* loadData, run by the mount effect
loadData(s, loadError) ==
  /\ ppLoading[s] = TRUE
  /\ payments' = [payments EXCEPT ![s] = LoadedPayments(db_payments, s, loadError)]
  /\ ppLoading' = [ppLoading EXCEPT ![s] = FALSE]
  /\ lastPayOp' = NoPayOp
  /\ UNCHANGED <<db_payments, db_transactions, payNextId, txNextId, now,
                 selectedPayment, showPaymentMethod, paypalShow>>
  /\ UNCHANGED NotPay

\* handlePaymentStatusUpdate sending the status alone
UpdateData_StatusOnly(status, paymentMethod, clock) ==
  [status |-> status,
   set_payment_date |-> FALSE,
   payment_date |-> Today(clock),
   set_payment_method |-> status = "paid" /\ paymentMethod # NULL,
   payment_method |-> paymentMethod]

\* the object handlePaymentStatusUpdate sends as the update
UpdateData(status, paymentMethod, clock) ==
  [status |-> status,
   set_payment_date |-> status = "paid",
   payment_date |-> Today(clock),
   set_payment_method |-> status = "paid" /\ paymentMethod # NULL,
   payment_method |-> paymentMethod]

\* UPDATE payments SET updateData on one row
ApplyUpdateData(row, u) ==
  [row EXCEPT !.status = u.status,
              !.payment_date = IF u.set_payment_date THEN u.payment_date ELSE @,
              !.payment_method = IF u.set_payment_method THEN u.payment_method ELSE @]

\* the row handlePaymentStatusUpdate inserts into transactions
LedgerRow(s, payment, paymentMethod, clock, id) ==
  [id |-> id,
   type |-> "income",
   category |-> IF payment.payment_type = "monthly_dues" THEN "hoa_fees"
                ELSE "other_income",
   amount |-> payment.amount,
   transaction_date |-> Today(clock),
   property_id |-> payment.property_id,
   payment_method |-> IF paymentMethod # NULL THEN paymentMethod
                      ELSE payment.payment_method,
   created_by |-> s]

\* handlePaymentStatusUpdate inserting the ledger row without looking at the
\* update's error
handlePaymentStatusUpdate_InsertsOnError(s, paymentId, status, paymentMethod, netError, insertLost, loadError) ==
  txNextId <= MaxTx /\
  LET updateData == UpdateData(status, paymentMethod, now)
      target == {r \in db_payments : /\ r.id = paymentId
                                     /\ PaymentSelectPolicy(s, r)
                                     /\ PaymentUpdatePolicy(s, r)}
      written == {ApplyUpdateData(r, updateData) : r \in target}
      rejected == \E w \in written : \/ ~PaymentMethodCheck(w.payment_method)
                                     \/ ~PaymentUpdatePolicy(s, w)
      error == netError \/ rejected
      table == IF error THEN db_payments ELSE (db_payments \ target) \cup written
      found == {p \in SeqToSet(payments[s]) : p.id = paymentId}
      rows == IF status # "paid" THEN {}
              ELSE {LedgerRow(s, p, paymentMethod, now, txNextId) : p \in found}
      inserted == {t \in rows : /\ ~insertLost
                                /\ TransactionInsertPolicy(s, t)
                                /\ PaymentMethodCheck(t.payment_method)}
  IN /\ db_payments' = table
     /\ db_transactions' = db_transactions \cup inserted
     /\ txNextId' = IF inserted = {} THEN txNextId ELSE txNextId + 1
     /\ payments' = [payments EXCEPT ![s] =
                       IF error THEN @ ELSE LoadedPayments(table, s, loadError)]
     /\ lastPayOp' = [kind |-> "status", actor |-> s, id |-> paymentId,
                      status |-> status, method |-> paymentMethod,
                      target |-> target, netError |-> netError,
                      error |-> error, insertLost |-> insertLost,
                      inserted |-> inserted]
     /\ UNCHANGED <<payNextId, now, ppLoading>>

\* handlePaymentStatusUpdate(paymentId, status, paymentMethod?) in session s.
\* netError: the update query fails in transit; insertLost: the insert does;
\* loadError: the reload does.  The caller sets the card state.
handlePaymentStatusUpdate(s, paymentId, status, paymentMethod, netError, insertLost, loadError) ==
  txNextId <= MaxTx /\
  LET updateData == UpdateData(status, paymentMethod, now)
      target == {r \in db_payments : /\ r.id = paymentId
                                     /\ PaymentSelectPolicy(s, r)
                                     /\ PaymentUpdatePolicy(s, r)}
      written == {ApplyUpdateData(r, updateData) : r \in target}
      rejected == \E w \in written : \/ ~PaymentMethodCheck(w.payment_method)
                                     \/ ~PaymentUpdatePolicy(s, w)
      error == netError \/ rejected
      table == IF error THEN db_payments ELSE (db_payments \ target) \cup written
      found == {p \in SeqToSet(payments[s]) : p.id = paymentId}
      rows == IF error \/ status # "paid" THEN {}
              ELSE {LedgerRow(s, p, paymentMethod, now, txNextId) : p \in found}
      inserted == {t \in rows : /\ ~insertLost
                                /\ TransactionInsertPolicy(s, t)
                                /\ PaymentMethodCheck(t.payment_method)}
  IN /\ db_payments' = table
     /\ db_transactions' = db_transactions \cup inserted
     /\ txNextId' = IF inserted = {} THEN txNextId ELSE txNextId + 1
     /\ payments' = [payments EXCEPT ![s] =
                       IF error THEN @ ELSE LoadedPayments(table, s, loadError)]
     /\ lastPayOp' = [kind |-> "status", actor |-> s, id |-> paymentId,
                      status |-> status, method |-> paymentMethod,
                      target |-> target, netError |-> netError,
                      error |-> error, insertLost |-> insertLost,
                      inserted |-> inserted]
     /\ UNCHANGED <<payNextId, now, ppLoading>>

\* no modal (details, create form) covers the list
ListActive(s) == ppLoading[s] = FALSE /\ selectedPayment[s] = {}

\* the "Mark as Paid" button of a card
handleMarkAsPaid(s, p) ==
  /\ ListActive(s)
  /\ p \in SeqToSet(payments[s])
  /\ p.status = "pending" /\ p.id \notin showPaymentMethod[s]
  /\ showPaymentMethod' = [showPaymentMethod EXCEPT ![s] = @ \cup {p.id}]
  /\ lastPayOp' = NoPayOp
  /\ UNCHANGED <<db_payments, db_transactions, payNextId, txNextId, now,
                 payments, ppLoading, selectedPayment, paypalShow>>
  /\ UNCHANGED NotPay

\* the Cancel button of the payment-method panel
CloseMethodPanel(s, id) ==
  /\ ListActive(s)
  /\ id \in showPaymentMethod[s]
  /\ showPaymentMethod' = [showPaymentMethod EXCEPT ![s] = @ \ {id}]
  /\ lastPayOp' = NoPayOp
  /\ UNCHANGED <<db_payments, db_transactions, payNextId, txNextId, now,
                 payments, ppLoading, selectedPayment, paypalShow>>
  /\ UNCHANGED NotPay

\* "Confirm Payment" with the method selected in the panel
confirmPayment(s, id, paymentMethod, netError, insertLost, loadError) ==
  /\ ListActive(s)
  /\ id \in showPaymentMethod[s]
  /\ handlePaymentStatusUpdate(s, id, "paid", paymentMethod,
                               netError, insertLost, loadError)
  /\ showPaymentMethod' = [showPaymentMethod EXCEPT ![s] =
       (@ \ {id}) \cap {p.id : p \in SeqToSet(payments'[s])}]
  /\ paypalShow' = [paypalShow EXCEPT ![s] =
       @ \cap {p.id : p \in {q \in SeqToSet(payments'[s]) : q.status = "pending"}}]
  /\ UNCHANGED selectedPayment
  /\ UNCHANGED NotPay

\* the admin's "Cancel" button of a pending card
CancelPayment(s, p, netError, loadError) ==
  /\ ListActive(s)
  /\ IsAdmin(s)
  /\ p \in SeqToSet(payments[s])
  /\ p.status = "pending" /\ p.id \notin showPaymentMethod[s]
  /\ handlePaymentStatusUpdate(s, p.id, "cancelled", NULL,
                               netError, FALSE, loadError)
  /\ CardsAfter(s, payments'[s])
  /\ UNCHANGED selectedPayment
  /\ UNCHANGED NotPay

\* PayWithPayPal: the "Pay Now" button
PayNow(s, p) ==
  /\ ListActive(s)
  /\ p \in SeqToSet(payments[s])
  /\ p.status = "pending" /\ p.id \notin paypalShow[s]
  /\ paypalShow' = [paypalShow EXCEPT ![s] = @ \cup {p.id}]
  /\ lastPayOp' = NoPayOp
  /\ UNCHANGED <<db_payments, db_transactions, payNextId, txNextId, now,
                 payments, ppLoading, selectedPayment, showPaymentMethod>>
  /\ UNCHANGED NotPay

\* PayPalButton onApprove: the order is captured, onSuccess hides the
\* button and onPaid marks the payment paid with method 'paypal'
PayPalApprove(s, id, netError, insertLost, loadError) ==
  /\ ListActive(s)
  /\ id \in paypalShow[s]
  /\ handlePaymentStatusUpdate(s, id, "paid", "paypal",
                               netError, insertLost, loadError)
  /\ paypalShow' = [paypalShow EXCEPT ![s] =
       (@ \ {id}) \cap {p.id : p \in {q \in SeqToSet(payments'[s]) :
                                         q.status = "pending"}}]
  /\ showPaymentMethod' = [showPaymentMethod EXCEPT ![s] =
       @ \cap {p.id : p \in SeqToSet(payments'[s])}]
  /\ UNCHANGED selectedPayment
  /\ UNCHANGED NotPay

\* PayPalButton onError: the button is hidden
PayPalError(s, id) ==
  /\ ListActive(s)
  /\ id \in paypalShow[s]
  /\ paypalShow' = [paypalShow EXCEPT ![s] = @ \ {id}]
  /\ lastPayOp' = NoPayOp
  /\ UNCHANGED <<db_payments, db_transactions, payNextId, txNextId, now,
                 payments, ppLoading, selectedPayment, showPaymentMethod>>
  /\ UNCHANGED NotPay

\* a click on a card opens PaymentDetailsModal
SelectPayment(s, p) ==
  /\ ListActive(s)
  /\ p \in SeqToSet(payments[s])
  /\ selectedPayment' = [selectedPayment EXCEPT ![s] = {p}]
  /\ lastPayOp' = NoPayOp
  /\ UNCHANGED <<db_payments, db_transactions, payNextId, txNextId, now,
                 payments, ppLoading, showPaymentMethod, paypalShow>>
  /\ UNCHANGED NotPay

\* the Close button of PaymentDetailsModal
CloseDetails(s) ==
  /\ selectedPayment[s] # {}
  /\ selectedPayment' = [selectedPayment EXCEPT ![s] = {}]
  /\ lastPayOp' = NoPayOp
  /\ UNCHANGED <<db_payments, db_transactions, payNextId, txNextId, now,
                 payments, ppLoading, showPaymentMethod, paypalShow>>
  /\ UNCHANGED NotPay

\* handleDeletePayment issuing the delete whatever confirm() returns
handleDeletePayment_NoConfirm(s, confirmed, netError, loadError) ==
  /\ selectedPayment[s] # {}
  /\ LET p == CHOOSE r \in selectedPayment[s] : TRUE
         target == {r \in db_payments : /\ r.id = p.id
                                        /\ PaymentSelectPolicy(s, r)
                                        /\ PaymentDeletePolicy(s, r)}
         issued == ~netError
         table == IF issued THEN db_payments \ target ELSE db_payments
     IN /\ IsAdmin(s) /\ p.status = "pending"
        /\ db_payments' = table
        /\ payments' = [payments EXCEPT ![s] =
                          IF issued THEN LoadedPayments(table, s, loadError) ELSE @]
        /\ lastPayOp' = [NoPayOp EXCEPT !.kind = IF confirmed THEN "delete"
                                                 ELSE "declined",
                                        !.actor = s, !.id = p.id,
                                        !.target = IF confirmed THEN target ELSE {},
                                        !.netError = netError,
                                        !.error = confirmed /\ netError]
  /\ selectedPayment' = [selectedPayment EXCEPT ![s] = {}]
  /\ CardsAfter(s, payments'[s])
  /\ UNCHANGED <<db_transactions, payNextId, txNextId, now, ppLoading>>
  /\ UNCHANGED NotPay

\* the Delete button of PaymentDetailsModal: handleDeletePayment, onClose
handleDeletePayment(s, confirmed, netError, loadError) ==
  /\ selectedPayment[s] # {}
  /\ LET p == CHOOSE r \in selectedPayment[s] : TRUE
         target == {r \in db_payments : /\ r.id = p.id
                                        /\ PaymentSelectPolicy(s, r)
                                        /\ PaymentDeletePolicy(s, r)}
         issued == confirmed /\ ~netError
         table == IF issued THEN db_payments \ target ELSE db_payments
     IN /\ IsAdmin(s) /\ p.status = "pending"
        /\ db_payments' = table
        /\ payments' = [payments EXCEPT ![s] =
                          IF issued THEN LoadedPayments(table, s, loadError) ELSE @]
        /\ lastPayOp' = [NoPayOp EXCEPT !.kind = IF confirmed THEN "delete"
                                                 ELSE "declined",
                                        !.actor = s, !.id = p.id,
                                        !.target = IF confirmed THEN target ELSE {},
                                        !.netError = netError,
                                        !.error = confirmed /\ netError]
  /\ selectedPayment' = [selectedPayment EXCEPT ![s] = {}]
  /\ CardsAfter(s, payments'[s])
  /\ UNCHANGED <<db_transactions, payNextId, txNextId, now, ppLoading>>
  /\ UNCHANGED NotPay

\* PaymentForm.handleSubmit (the form is offered to admins only); cap bounds
\* the table
CreatePayment(s, property_id, payment_type, netError, loadError, cap) ==
  /\ ListActive(s)
  /\ IsAdmin(s)
  /\ payNextId <= cap
  /\ LET row == [id |-> payNextId, property_id |-> property_id,
                 amount |-> PaymentAmount, payment_type |-> payment_type,
                 payment_date |-> NoNumber, due_date |-> Today(now),
                 status |-> "pending", payment_method |-> NULL]
         error == netError \/ ~PaymentInsertPolicy(s, row)
         table == IF error THEN db_payments ELSE db_payments \cup {row}
     IN /\ db_payments' = table
        /\ payNextId' = IF error THEN payNextId ELSE payNextId + 1
        /\ payments' = [payments EXCEPT ![s] =
                          IF error THEN @ ELSE LoadedPayments(table, s, loadError)]
        /\ lastPayOp' = [NoPayOp EXCEPT !.kind = "create", !.actor = s,
                                        !.id = payNextId, !.netError = netError,
                                        !.error = error]
  /\ CardsAfter(s, payments'[s])
  /\ UNCHANGED <<db_transactions, txNextId, now, ppLoading, selectedPayment>>
  /\ UNCHANGED NotPay

\* time passes
Tick ==
  /\ now < MaxNow
  /\ now' = now + 1
  /\ lastPayOp' = NoPayOp
  /\ UNCHANGED <<db_payments, db_transactions, payNextId, txNextId, payments,
                 ppLoading, selectedPayment, showPaymentMethod, paypalShow>>
  /\ UNCHANGED NotPay

\* the payment methods the model selects in the panel
PanelMethods == {"online"}

\* the property the model's admin selects in PaymentForm
FormProperties == {"prop1"}

NextPay ==
  \/ Tick
  \/ \E s \in PaySessions :
       \/ PayMount(s)
       \/ \E le \in BOOLEAN : loadData(s, le)
       \/ \E p \in SeqToSet(payments[s]) : handleMarkAsPaid(s, p)
       \/ \E id \in showPaymentMethod[s] : CloseMethodPanel(s, id)
       \/ \E id \in showPaymentMethod[s], m \in PanelMethods, ne, il, le \in BOOLEAN :
            confirmPayment(s, id, m, ne, il, le)
       \/ \E p \in SeqToSet(payments[s]), ne, le \in BOOLEAN :
            CancelPayment(s, p, ne, le)
       \/ \E p \in SeqToSet(payments[s]) : PayNow(s, p)
       \/ \E id \in paypalShow[s], ne, il, le \in BOOLEAN :
            PayPalApprove(s, id, ne, il, le)
       \/ \E id \in paypalShow[s] : PayPalError(s, id)
       \/ \E p \in SeqToSet(payments[s]) : SelectPayment(s, p)
       \/ CloseDetails(s)
       \/ \E c, ne, le \in BOOLEAN : handleDeletePayment(s, c, ne, le)
       \/ \E pr \in FormProperties, ty \in PaymentTypes, ne, le \in BOOLEAN :
            CreatePayment(s, pr, ty, ne, le, MaxPay)


\* ------------------------------------------------------------------------
\* AuthContext, AppContent and Sidebar (one browser)
\* ------------------------------------------------------------------------
InitApp ==
  /\ user = NULL
  /\ profile = NULL
  /\ authLoading = TRUE
  /\ activeView = "dashboard"
  /\ isMobileOpen = FALSE
  /\ isCollapsed = FALSE

\* Sidebar with the Transactions item offered to residents as well
menuItems_TransactionsForAll ==
  << [id |-> "dashboard", roles |-> {"admin", "resident"}],
     [id |-> "maintenance", roles |-> {"admin", "resident"}],
     [id |-> "transactions", roles |-> {"admin", "resident"}],
     [id |-> "payments", roles |-> {"admin", "resident"}],
     [id |-> "properties", roles |-> {"admin"}],
     [id |-> "reports", roles |-> {"admin"}],
     [id |-> "statements", roles |-> {"admin"}],
     [id |-> "announcements", roles |-> {"admin", "resident"}],
     [id |-> "notifications", roles |-> {"admin", "resident"}] >>

menuItems ==
  << [id |-> "dashboard", roles |-> {"admin", "resident"}],
     [id |-> "maintenance", roles |-> {"admin", "resident"}],
     [id |-> "transactions", roles |-> {"admin"}],
     [id |-> "payments", roles |-> {"admin", "resident"}],
     [id |-> "properties", roles |-> {"admin"}],
     [id |-> "reports", roles |-> {"admin"}],
     [id |-> "statements", roles |-> {"admin"}],
     [id |-> "announcements", roles |-> {"admin", "resident"}],
     [id |-> "notifications", roles |-> {"admin", "resident"}] >>

\* menuItems.filter(item => item.roles.includes(profile?.role || 'resident'))
visibleItems(prof) ==
  LET role == IF prof = NULL THEN "resident" ELSE prof
      Includes(item) == role \in item.roles
  IN SelectSeq(menuItems, Includes)

\* what AppContent renders
renderView(view) ==
  CASE view = "dashboard" -> "Dashboard"
    [] view = "maintenance" -> "MaintenanceList"
    [] view = "transactions" -> "TransactionList"
    [] view = "payments" -> "PaymentPortal"
    [] view = "announcements" -> "AnnouncementList"
    [] view = "notifications" -> "NotificationCenter"
    [] OTHER -> "Dashboard"

AppContent ==
  IF authLoading THEN "spinner"
  ELSE IF user = NULL THEN "LoginForm"
  ELSE renderView(activeView)

\* AuthContext: the initial session lookup ends with nobody signed in
AuthReady ==
  /\ authLoading = TRUE
  /\ authLoading' = FALSE
  /\ UNCHANGED <<user, profile, activeView, isMobileOpen, isCollapsed>>
  /\ UNCHANGED NotApp

\* AuthContext: LoginForm's signIn succeeds for user u
signIn(u) ==
  /\ authLoading = FALSE /\ user = NULL
  /\ user' = u
  /\ profile' = NULL
  /\ UNCHANGED <<authLoading, activeView, isMobileOpen, isCollapsed>>
  /\ UNCHANGED NotApp

\* AuthContext: the profile row of the signed-in user arrives
ProfileLoaded ==
  /\ user # NULL /\ profile = NULL
  /\ profile' = Role[user]
  /\ UNCHANGED <<user, authLoading, activeView, isMobileOpen, isCollapsed>>
  /\ UNCHANGED NotApp

\* Sidebar.handleSignOut: AuthContext's signOut clears user and profile
handleSignOut ==
  /\ authLoading = FALSE /\ user # NULL
  /\ user' = NULL
  /\ profile' = NULL
  /\ UNCHANGED <<authLoading, activeView, isMobileOpen, isCollapsed>>
  /\ UNCHANGED NotApp

\* Sidebar.handleViewChange, from the button of a visible item
handleViewChange(view) ==
  /\ authLoading = FALSE /\ user # NULL
  /\ \E i \in 1..Len(visibleItems(profile)) : visibleItems(profile)[i].id = view
  /\ activeView' = view
  /\ isMobileOpen' = FALSE
  /\ UNCHANGED <<user, profile, authLoading, isCollapsed>>
  /\ UNCHANGED NotApp

\* the mobile menu button
ToggleMobile ==
  /\ authLoading = FALSE /\ user # NULL
  /\ isMobileOpen' = ~isMobileOpen
  /\ UNCHANGED <<user, profile, authLoading, activeView, isCollapsed>>
  /\ UNCHANGED NotApp

\* the collapse button
ToggleCollapsed ==
  /\ authLoading = FALSE /\ user # NULL
  /\ isCollapsed' = ~isCollapsed
  /\ UNCHANGED <<user, profile, authLoading, activeView, isMobileOpen>>
  /\ UNCHANGED NotApp

ViewIds == {menuItems[i].id : i \in 1..Len(menuItems)}

NextApp ==
  \/ AuthReady
  \/ \E u \in Users : signIn(u)
  \/ ProfileLoaded
  \/ handleSignOut
  \/ \E v \in ViewIds : handleViewChange(v)
  \/ ToggleMobile
  \/ ToggleCollapsed

\* the users whose notification centers are modelled
NotifSessions == {"admin1", "res1"}

NoNotifOp == [kind |-> "none", actor |-> NULL, id |-> 0, error |-> FALSE,
              reloaded |-> FALSE]

\* NotificationCenter: useState initial values; no notification is stored
InitNotif ==
  /\ db_notifications = {}
  /\ notifications = [s \in NotifSessions |-> <<>>]
  /\ preferences = [s \in NotifSessions |-> {}]
  /\ ncLoading = [s \in NotifSessions |-> TRUE]
  /\ ncFilter = [s \in NotifSessions |-> "all"]
  /\ ncSearch = [s \in NotifSessions |-> ""]
  /\ ncPending = {}
  /\ lastNotifOp = NoNotifOp

\* FinancialStatements: useState initial values
InitStmt ==
  /\ fsTransactions = <<>>
  /\ fsPayments = <<>>
  /\ fsLoading = TRUE
  /\ period = "current"

\* ReportsPage: useState initial values; the browser is in UTC
InitRep ==
  /\ rpTransactions = <<>>
  /\ rpLoading = TRUE
  /\ dateRange = "90"
  /\ reportType = "overview"
  /\ tz = "utc"

\* ------------------------------------------------------------------------
\* Dashboard and TransactionList
\* ------------------------------------------------------------------------
FinSessions == {"admin1", "res1"}

NoStats == [totalIncome |-> 0, totalExpenses |-> 0, balance |-> 0,
            pendingPayments |-> 0, upcomingMaintenance |-> 0,
            activeMaintenance |-> 0]

NothingFetched == [transactions |-> <<>>, transactionsOk |-> FALSE,
                   maintenanceOk |-> FALSE]

InitFin ==
  /\ stats = [s \in FinSessions |-> NoStats]
  /\ fetched = [s \in FinSessions |-> NothingFetched]
  /\ recentTransactions = [s \in FinSessions |-> <<>>]
  /\ recentMaintenance = [s \in FinSessions |-> <<>>]
  /\ dashLoading = [s \in FinSessions |-> TRUE]
  /\ transactions = [s \in FinSessions |-> <<>>]
  /\ tlLoading = [s \in FinSessions |-> TRUE]

RECURSIVE OrderByTransactionDateDesc(_)
\* .order('transaction_date', { ascending: false }); equal dates by id
OrderByTransactionDateDesc(rows) ==
  IF rows = {} THEN <<>>
  ELSE LET first == CHOOSE r \in rows : \A q \in rows :
                      \/ q.transaction_date < r.transaction_date
                      \/ (q.transaction_date = r.transaction_date /\ q.id <= r.id)
       IN <<first>> \o OrderByTransactionDateDesc(rows \ {first})

\* select * from transactions, as session s
SelectTransactions(s) ==
  OrderByTransactionDateDesc({t \in db_transactions : TransactionSelectPolicy(s, t)})

RECURSIVE SumAmount(_)
\* .reduce((sum, t) => sum + t.amount, 0); amounts are whole numbers here
SumAmount(sq) ==
  IF sq = <<>> THEN 0 ELSE Head(sq).amount + SumAmount(Tail(sq))

IsIncome(t) == t.type = "income"
IsExpense(t) == t.type = "expense"
IsPendingStatus(r) == r.status = "pending"
IsInProgress(r) == r.status = "in_progress"

\* .limit(n) / .slice(0, n)
Limit(sq, n) == SubSeq(sq, 1, IF Len(sq) < n THEN Len(sq) ELSE n)

\* Dashboard computing the balance as the sum of income and expenses
DashboardStats_BalanceAdds(txs, pays, maintenance) ==
  LET totalIncome == SumAmount(SelectSeq(txs, IsIncome))
      totalExpenses == SumAmount(SelectSeq(txs, IsExpense))
  IN [totalIncome |-> totalIncome,
      totalExpenses |-> totalExpenses,
      balance |-> totalIncome + totalExpenses,
      pendingPayments |-> SumAmount(pays),
      upcomingMaintenance |-> Len(SelectSeq(maintenance, IsPendingStatus)),
      activeMaintenance |-> Len(SelectSeq(maintenance, IsInProgress))]

\* the stats loadDashboardData derives from the three query results
DashboardStats(txs, pays, maintenance) ==
  LET totalIncome == SumAmount(SelectSeq(txs, IsIncome))
      totalExpenses == SumAmount(SelectSeq(txs, IsExpense))
  IN [totalIncome |-> totalIncome,
      totalExpenses |-> totalExpenses,
      balance |-> totalIncome - totalExpenses,
      pendingPayments |-> SumAmount(pays),
      upcomingMaintenance |-> Len(SelectSeq(maintenance, IsPendingStatus)),
      activeMaintenance |-> Len(SelectSeq(maintenance, IsInProgress))]

\* the Dashboard is mounted again: state resets
DashMount(s) ==
  /\ dashLoading[s] = FALSE
  /\ stats' = [stats EXCEPT ![s] = NoStats]
  /\ fetched' = [fetched EXCEPT ![s] = NothingFetched]
  /\ recentTransactions' = [recentTransactions EXCEPT ![s] = <<>>]
  /\ recentMaintenance' = [recentMaintenance EXCEPT ![s] = <<>>]
  /\ dashLoading' = [dashLoading EXCEPT ![s] = TRUE]
  /\ UNCHANGED <<transactions, tlLoading>>
  /\ UNCHANGED NotFin

\* loadDashboardData, run by the mount effect; a query that fails yields
\* null data, which the handler reads as an empty list
loadDashboardData(s, txError, payError, mError) ==
  /\ dashLoading[s] = TRUE
  /\ LET txs == IF txError THEN <<>> ELSE SelectTransactions(s)
         pays == IF payError THEN <<>>
                 ELSE OrderByDueDateDesc({r \in db_payments :
                        PaymentSelectPolicy(s, r) /\ r.status = "pending"})
         maintenance ==
           IF mError THEN <<>>
           ELSE Limit(OrderByCreatedAtDesc({r \in db_maintenance_requests :
                                              MaintSelectPolicy(s, r)}),
                      DashboardLimit)
     IN /\ stats' = [stats EXCEPT ![s] = DashboardStats(txs, pays, maintenance)]
        /\ fetched' = [fetched EXCEPT ![s] =
                         [transactions |-> txs, transactionsOk |-> ~txError,
                          maintenanceOk |-> ~mError]]
        /\ recentTransactions' = [recentTransactions EXCEPT ![s] =
                                    Limit(txs, DashboardLimit)]
        /\ recentMaintenance' = [recentMaintenance EXCEPT ![s] = maintenance]
  /\ dashLoading' = [dashLoading EXCEPT ![s] = FALSE]
  /\ UNCHANGED <<transactions, tlLoading>>
  /\ UNCHANGED NotFin

\* the TransactionList is mounted again: state resets
TransactionListMount(s) ==
  /\ tlLoading[s] = FALSE
  /\ transactions' = [transactions EXCEPT ![s] = <<>>]
  /\ tlLoading' = [tlLoading EXCEPT ![s] = TRUE]
  /\ UNCHANGED <<stats, fetched, recentTransactions, recentMaintenance,
                 dashLoading>>
  /\ UNCHANGED NotFin

\* loadTransactions, run by the mount effect
loadTransactions(s, queryError) ==
  /\ tlLoading[s] = TRUE
  /\ transactions' = [transactions EXCEPT ![s] =
                        IF queryError THEN @ ELSE SelectTransactions(s)]
  /\ tlLoading' = [tlLoading EXCEPT ![s] = FALSE]
  /\ UNCHANGED <<stats, fetched, recentTransactions, recentMaintenance,
                 dashLoading>>
  /\ UNCHANGED NotFin

\* the three totals TransactionList renders from its `transactions`
TransactionListTotals(txs) ==
  LET totalIncome == SumAmount(SelectSeq(txs, IsIncome))
      totalExpenses == SumAmount(SelectSeq(txs, IsExpense))
  IN [totalIncome |-> totalIncome,
      totalExpenses |-> totalExpenses,
      balance |-> totalIncome - totalExpenses]

NextFin ==
  \E s \in FinSessions :
    \/ DashMount(s)
    \/ \E te, pe, me \in BOOLEAN : loadDashboardData(s, te, pe, me)
    \/ TransactionListMount(s)
    \/ \E e \in BOOLEAN : loadTransactions(s, e)

\* the ledger rows the model draws: type, amount and property
LedgerChoices ==
  {[type |-> "income", amount |-> a, property_id |-> pr] :
      a \in {100, 250}, pr \in {NULL, "prop1"}}
  \cup {[type |-> "expense", amount |-> a, property_id |-> NULL] : a \in {100, 250}}

\* a ledger of n rows, row i as chosen by f[i]
Ledger(n, f) ==
  {[id |-> i, type |-> f[i].type,
    category |-> IF f[i].type = "income" THEN "hoa_fees" ELSE "repairs",
    amount |-> f[i].amount, transaction_date |-> 0,
    property_id |-> f[i].property_id, payment_method |-> "bank_transfer",
    created_by |-> "admin1"] : i \in 1..n}

\* any ledger of up to MaxLedger rows is stored; nothing else is
InitLedger ==
  /\ InitMaint /\ InitApp /\ InitFin /\ InitRep /\ InitFilt /\ InitNotif /\ InitStmt
  /\ db_payments = {} /\ payNextId = 1 /\ now = 0
  /\ payments = [s \in PaySessions |-> <<>>]
  /\ ppLoading = [s \in PaySessions |-> TRUE]
  /\ selectedPayment = [s \in PaySessions |-> {}]
  /\ showPaymentMethod = [s \in PaySessions |-> {}]
  /\ paypalShow = [s \in PaySessions |-> {}]
  /\ lastPayOp = NoPayOp
  /\ \E n \in 0..MaxLedger : \E f \in [1..n -> LedgerChoices] :
       /\ db_transactions = Ledger(n, f)
       /\ txNextId = n + 1

\* the maintenance requests the model draws: status and requester
RequestChoices ==
  {[status |-> st, requested_by |-> "res1"] :
      st \in {"pending", "in_progress", "completed"}}
  \cup {[status |-> "in_progress", requested_by |-> "res2"]}

\* n stored requests, request i as chosen by f[i], created in the order of i
StoredRequests(n, f) ==
  {[id |-> i, created_at |-> i, title |-> "t1", status |-> f[i].status,
    estimated_cost |-> NoNumber, scheduled_date |-> NULL,
    assigned_vendor |-> NULL, requested_by |-> f[i].requested_by] : i \in 1..n}

\* any table of up to MaxDashReq maintenance requests is stored
InitDash ==
  /\ InitPay /\ InitApp /\ InitFin /\ InitRep /\ InitNotif /\ InitStmt
  /\ requests = [s \in MaintSessions |-> <<>>]
  /\ mlLoading = [s \in MaintSessions |-> TRUE]
  /\ showForm = [s \in MaintSessions |-> FALSE]
  /\ editingRequest = [s \in MaintSessions |-> {}]
  /\ deleteConfirmId = [s \in MaintSessions |-> 0]
  /\ lastMaintOp = NoMaintOp
  /\ \E n \in 0..MaxDashReq : \E f \in [1..n -> RequestChoices] :
       /\ db_maintenance_requests = StoredRequests(n, f)
       /\ mrNextId = n + 1

\* ------------------------------------------------------------------------
\* ReportsPage
\* ------------------------------------------------------------------------
\* The model's calendar: day d is the date d days after January 1st of year
\* 0, every month has DaysPerMonth days, and the four date ranges are scaled
\* to it (30 days are one month).  A stored date is the instant of its UTC
\* midnight, d * TicksPerDay on the clock.
DateRanges == {"30", "90", "180", "365"}
ReportTypes == {"overview", "income", "expenses"}

\* "utc": local time is UTC (or ahead of it); "west": local time is behind
TimeZones == {"utc", "west"}

ParseInt(str) ==
  CASE str = "30" -> 30 [] str = "90" -> 90 [] str = "180" -> 180
    [] str = "365" -> 365

\* the length of a date range on the model's calendar
RangeDays(range) == (ParseInt(range) \div 30) * DaysPerMonth

MonthNames == << "Jan", "Feb", "Mar", "Apr", "May", "Jun",
                 "Jul", "Aug", "Sep", "Oct", "Nov", "Dec" >>

\* the names in alphabetical order, as localeCompare puts them
MonthNamesSorted == << "Apr", "Aug", "Dec", "Feb", "Jan", "Jul",
                       "Jun", "Mar", "May", "Nov", "Oct", "Sep" >>

\* the local calendar day on which the instant of UTC midnight of day d falls
LocalDay(d, zone) == IF zone = "west" THEN d - 1 ELSE d

\* getFullYear() and getMonth() of a local day, as one month number
MonthOfDay(d) == d \div DaysPerMonth

\* the one user whose reports page is modelled
ReportViewer == "admin1"

RECURSIVE OrderByTransactionDateAsc(_)
\* .order('transaction_date', { ascending: true }); equal dates by id
OrderByTransactionDateAsc(rows) ==
  IF rows = {} THEN <<>>
  ELSE LET first == CHOOSE r \in rows : \A q \in rows :
                      \/ q.transaction_date > r.transaction_date
                      \/ (q.transaction_date = r.transaction_date /\ q.id >= r.id)
       IN <<first>> \o OrderByTransactionDateAsc(rows \ {first})

\* Array.prototype.sort with comparator Less: a stable sort
StableSort(sq, Less(_, _)) ==
  LET n == Len(sq)
      pos(i) == 1 + Cardinality({j \in 1..n :
                      \/ Less(sq[j], sq[i])
                      \/ (~Less(sq[i], sq[j]) /\ j < i)})
  IN [k \in 1..n |-> sq[CHOOSE i \in 1..n : pos(i) = k]]

RECURSIVE KeysInOrder(_, _)
\* the keys of a Map filled from sq, in insertion order
KeysInOrder(sq, seen) ==
  IF sq = <<>> THEN <<>>
  ELSE IF Head(sq) \in seen THEN KeysInOrder(Tail(sq), seen)
  ELSE <<Head(sq)>> \o KeysInOrder(Tail(sq), seen \cup {Head(sq)})

\* transactions.filter(t => new Date(t.transaction_date) >= daysAgo)
filterTransactionsByDateRange(txs, range, clock) ==
  LET daysAgo == clock - RangeDays(range) * TicksPerDay
      InRange(t) == t.transaction_date * TicksPerDay >= daysAgo
  IN SelectSeq(txs, InRange)

\* `${date.getFullYear()}-${String(date.getMonth() + 1).padStart(2, '0')}`
monthKey(t, zone) == MonthOfDay(LocalDay(t.transaction_date, zone))

\* new Date(month + '-01').toLocaleDateString('en-US', { month: 'short',
\* year: 'numeric' }): the first of the month at UTC midnight, shown in
\* local time
MonthLabel(key, zone) ==
  LET m == MonthOfDay(LocalDay(key * DaysPerMonth, zone))
  IN [mon |-> MonthNames[(m % 12) + 1], year |-> m \div 12]

\* a.localeCompare(b) < 0 for two labels "Mon YYYY"
LabelBefore(a, b) ==
  LET rank(name) == CHOOSE i \in 1..12 : MonthNamesSorted[i] = name
  IN \/ rank(a.mon) < rank(b.mon)
     \/ (a.mon = b.mon /\ a.year < b.year)

getMonthlyData(txs, range, clock, zone) ==
  LET filteredTransactions == filterTransactionsByDateRange(txs, range, clock)
      n == Len(filteredTransactions)
      keys == KeysInOrder([i \in 1..n |-> monthKey(filteredTransactions[i], zone)], {})
      OfMonthIncome(k) ==
        LET Is(t) == monthKey(t, zone) = k /\ t.type = "income"
        IN SelectSeq(filteredTransactions, Is)
      OfMonthOther(k) ==
        LET Is(t) == monthKey(t, zone) = k /\ t.type # "income"
        IN SelectSeq(filteredTransactions, Is)
      entry(k) == [month |-> MonthLabel(k, zone),
                   income |-> SumAmount(OfMonthIncome(k)),
                   expenses |-> SumAmount(OfMonthOther(k)),
                   net |-> SumAmount(OfMonthIncome(k)) - SumAmount(OfMonthOther(k))]
      ByMonthLabel(a, b) == LabelBefore(a.month, b.month)
  IN StableSort([i \in 1..Len(keys) |-> entry(keys[i])], ByMonthLabel)

\* category.replace(/_/g, ' ')
ReplaceUnderscores(category) ==
  CASE category = "hoa_fees" -> "hoa fees"
    [] category = "other_income" -> "other income"
    [] OTHER -> category

\* getCategoryData with the sort ascending
getCategoryData_Ascending(type, txs, range, clock) ==
  LET IsType(t) == t.type = type
      filteredTransactions ==
        SelectSeq(filterTransactionsByDateRange(txs, range, clock), IsType)
      n == Len(filteredTransactions)
      keys == KeysInOrder([i \in 1..n |-> filteredTransactions[i].category], {})
      OfCategory(c) ==
        LET Is(t) == t.category = c IN SelectSeq(filteredTransactions, Is)
      entry(c) == [category |-> ReplaceUnderscores(c),
                   amount |-> SumAmount(OfCategory(c)),
                   count |-> Len(OfCategory(c))]
      ByAmount(a, b) == a.amount < b.amount
  IN StableSort([i \in 1..Len(keys) |-> entry(keys[i])], ByAmount)

getCategoryData(type, txs, range, clock) ==
  LET IsType(t) == t.type = type
      filteredTransactions ==
        SelectSeq(filterTransactionsByDateRange(txs, range, clock), IsType)
      n == Len(filteredTransactions)
      keys == KeysInOrder([i \in 1..n |-> filteredTransactions[i].category], {})
      OfCategory(c) ==
        LET Is(t) == t.category = c IN SelectSeq(filteredTransactions, Is)
      entry(c) == [category |-> ReplaceUnderscores(c),
                   amount |-> SumAmount(OfCategory(c)),
                   count |-> Len(OfCategory(c))]
      ByAmountDesc(a, b) == b.amount < a.amount
  IN StableSort([i \in 1..Len(keys) |-> entry(keys[i])], ByAmountDesc)

\* totalIncome, totalExpenses and netIncome of the page
ReportTotals(txs, range, clock) ==
  LET filteredTransactions == filterTransactionsByDateRange(txs, range, clock)
      totalIncome == SumAmount(SelectSeq(filteredTransactions, IsIncome))
      totalExpenses == SumAmount(SelectSeq(filteredTransactions, IsExpense))
  IN [totalIncome |-> totalIncome, totalExpenses |-> totalExpenses,
      netIncome |-> totalIncome - totalExpenses]

\* the reports page is mounted again: state resets
ReportsMount ==
  /\ rpLoading = FALSE
  /\ rpTransactions' = <<>>
  /\ rpLoading' = TRUE
  /\ dateRange' = "90"
  /\ reportType' = "overview"
  /\ UNCHANGED tz
  /\ UNCHANGED NotRep

\* ReportsPage.loadTransactions, run by the mount effect
ReportsLoadTransactions(queryError) ==
  /\ rpLoading = TRUE
  /\ rpTransactions' =
       IF queryError THEN rpTransactions
       ELSE OrderByTransactionDateAsc({t \in db_transactions :
                                         TransactionSelectPolicy(ReportViewer, t)})
  /\ rpLoading' = FALSE
  /\ UNCHANGED <<dateRange, reportType, tz>>
  /\ UNCHANGED NotRep

\* a date range button
setDateRange(days) ==
  /\ rpLoading = FALSE
  /\ dateRange' = days
  /\ UNCHANGED <<rpTransactions, rpLoading, reportType, tz>>
  /\ UNCHANGED NotRep

\* a report type tab
setReportType(type) ==
  /\ rpLoading = FALSE
  /\ reportType' = type
  /\ UNCHANGED <<rpTransactions, rpLoading, dateRange, tz>>
  /\ UNCHANGED NotRep

NextRep ==
  \/ ReportsMount
  \/ \E e \in BOOLEAN : ReportsLoadTransactions(e)
  \/ \E d \in DateRanges : setDateRange(d)
  \/ \E t \in ReportTypes : setReportType(t)

\* the ledger rows the reports model draws: March 1st, March 2nd or April
\* 2nd of year 0
ReportChoices ==
  {[type |-> ty.type, category |-> ty.category, amount |-> a,
    transaction_date |-> d] :
      ty \in {[type |-> "income", category |-> "hoa_fees"],
              [type |-> "income", category |-> "other_income"],
              [type |-> "expense", category |-> "repairs"]},
      a \in {100, 250},
      d \in {2 * DaysPerMonth, 2 * DaysPerMonth + 1, 3 * DaysPerMonth + 1}}

\* a ledger of n rows, row i as chosen by f[i]
ReportLedger(n, f) ==
  {[id |-> i, type |-> f[i].type, category |-> f[i].category,
    amount |-> f[i].amount, transaction_date |-> f[i].transaction_date,
    property_id |-> NULL, payment_method |-> "bank_transfer",
    created_by |-> "admin1"] : i \in 1..n}

\* the reports are read on May 2nd of year 0, at midnight or later in the day
ReportClocks ==
  {(4 * DaysPerMonth + 1) * TicksPerDay, (4 * DaysPerMonth + 1) * TicksPerDay + 1}

\* any ledger of up to MaxRepTx rows is stored; the browser is in either zone
InitReports ==
  /\ InitMaint /\ InitApp /\ InitFin /\ InitFilt /\ InitNotif /\ InitStmt
  /\ db_payments = {} /\ payNextId = 1
  /\ payments = [s \in PaySessions |-> <<>>]
  /\ ppLoading = [s \in PaySessions |-> TRUE]
  /\ selectedPayment = [s \in PaySessions |-> {}]
  /\ showPaymentMethod = [s \in PaySessions |-> {}]
  /\ paypalShow = [s \in PaySessions |-> {}]
  /\ lastPayOp = NoPayOp
  /\ now \in ReportClocks
  /\ \E n \in 0..MaxRepTx : \E f \in [1..n -> ReportChoices] :
       /\ db_transactions = ReportLedger(n, f)
       /\ txNextId = n + 1
  /\ rpTransactions = <<>>
  /\ rpLoading = TRUE
  /\ dateRange = "90"
  /\ reportType = "overview"
  /\ tz \in TimeZones

\* ------------------------------------------------------------------------
\* PaymentPortal: filter, search and the overdue figures
\* ------------------------------------------------------------------------
PortalFilters == {"all", "pending", "paid", "overdue"}

\* properties(address, unit_number) joined to a loaded payment
UnitNumber == [p \in Properties |-> IF p = "prop1" THEN "101" ELSE "102"]
Address == [p \in Properties |-> IF p = "prop1" THEN "1 Elm St" ELSE "2 Elm St"]

\* String.prototype.toLowerCase on the strings of the model
ToLowerCase(str) ==
  CASE str = "Dues" -> "dues"
    [] str = "Pay" -> "pay"
    [] str = "Payment Due" -> "payment due"
    [] str = "Notice" -> "notice"
    [] str = "See the portal" -> "see the portal"
    [] str = "Pay by Friday" -> "pay by friday"
    [] str = "Pool closed" -> "pool closed"
    [] str = "1 Elm St" -> "1 elm st"
    [] str = "2 Elm St" -> "2 elm st"
    [] OTHER -> str

\* hay.includes(needle) on the strings of the model
StringIncludes(hay, needle) ==
  \/ needle = ""
  \/ needle = hay
  \/ <<hay, needle>> \in {<<"monthly_dues", "dues">>, <<"1 elm st", "elm">>,
                          <<"2 elm st", "elm">>, <<"payment due", "pay">>,
                          <<"pay by friday", "pay">>}

\* the search strings the model types
SearchQueries == {"", "Dues"}

filteredPayments(pays, filter, query) ==
  LET Matches(p) ==
        LET matchesFilter == filter = "all" \/ p.status = filter
            q == ToLowerCase(query)
            matchesSearch ==
              \/ query = ""
              \/ StringIncludes(ToLowerCase(UnitNumber[p.property_id]), q)
              \/ StringIncludes(ToLowerCase(Address[p.property_id]), q)
              \/ StringIncludes(ToLowerCase(p.payment_type), q)
        IN matchesFilter /\ matchesSearch
  IN SelectSeq(pays, Matches)

\* new Date(due_date) < new Date(): the due date is the instant of its UTC
\* midnight
DueBefore(due_date, clock) == due_date * TicksPerDay < clock

overdueCount(pays, clock) ==
  LET Is(p) == p.status = "pending" /\ DueBefore(p.due_date, clock)
  IN Len(SelectSeq(pays, Is))

\* PaymentCard.isOverdue, the condition of the Overdue badge
isOverdue(payment, clock) ==
  payment.status = "pending" /\ DueBefore(payment.due_date, clock)

\* a filter button
setFilter(s, f) ==
  /\ ListActive(s)
  /\ ppFilter' = [ppFilter EXCEPT ![s] = f]
  /\ UNCHANGED searchQuery
  /\ UNCHANGED <<maintVars, payVars, appVars, finVars, repVars, notifVars,
                 stmtVars>>

\* typing in the search box
setSearchQuery(s, q) ==
  /\ ListActive(s)
  /\ searchQuery' = [searchQuery EXCEPT ![s] = q]
  /\ UNCHANGED ppFilter
  /\ UNCHANGED <<maintVars, payVars, appVars, finVars, repVars, notifVars,
                 stmtVars>>

\* the one session whose list SpecOverdue follows: the admin sees every row
OverdueSessions == {"admin1"}

NextOverdue ==
  \/ \E s \in OverdueSessions :
       \/ PayMount(s)
       \/ \E e \in BOOLEAN : loadData(s, e)
       \/ \E f \in PortalFilters : setFilter(s, f)
       \/ \E q \in SearchQueries : setSearchQuery(s, q)
  \/ Tick

\* the payments the overdue model draws
OverdueChoices ==
  {[status |-> st, due_date |-> d, property_id |-> pr, payment_type |-> ty] :
      st \in {"pending", "paid", "cancelled"}, d \in {0, 1},
      pr \in Properties, ty \in PaymentTypes}

\* n stored payments, payment i as chosen by f[i]
StoredPayments(n, f) ==
  {[id |-> i, property_id |-> f[i].property_id, amount |-> PaymentAmount,
    payment_type |-> f[i].payment_type,
    payment_date |-> IF f[i].status = "paid" THEN 0 ELSE NoNumber,
    due_date |-> f[i].due_date, status |-> f[i].status,
    payment_method |-> IF f[i].status = "paid" THEN "online" ELSE NULL] :
      i \in 1..n}

\* any table of up to MaxOverduePay payments is stored
InitOverdue ==
  /\ InitMaint /\ InitApp /\ InitFin /\ InitRep /\ InitFilt /\ InitNotif /\ InitStmt
  /\ db_transactions = {} /\ txNextId = 1 /\ now = 0
  /\ payments = [s \in PaySessions |-> <<>>]
  /\ ppLoading = [s \in PaySessions |-> TRUE]
  /\ selectedPayment = [s \in PaySessions |-> {}]
  /\ showPaymentMethod = [s \in PaySessions |-> {}]
  /\ paypalShow = [s \in PaySessions |-> {}]
  /\ lastPayOp = NoPayOp
  /\ \E n \in 0..MaxOverduePay : \E f \in [1..n -> OverdueChoices] :
       /\ db_payments = StoredPayments(n, f)
       /\ payNextId = n + 1

\* ------------------------------------------------------------------------
\* NotificationCenter
\* ------------------------------------------------------------------------
\* policy "Users can view own notifications"
NotifSelectPolicy(uid, row) == row.user_id = uid

\* policy "Users can update own notifications" (USING and WITH CHECK)
NotifUpdatePolicy(uid, row) == row.user_id = uid

\* policy "Users can delete own notifications"
NotifDeletePolicy(uid, row) == row.user_id = uid

NotifFilters == {"all", "unread", "payment_reminder", "maintenance_update",
                 "announcement", "system"}

\* the search strings the model types
NotifSearches == {"", "Pay"}

\* the row of notification_preferences of a user (fixed content)
StoredPreferences(uid) ==
  [user_id |-> uid, payment_reminders |-> TRUE, maintenance_updates |-> TRUE,
   announcements |-> TRUE, system_notifications |-> TRUE]

RECURSIVE OrderNotifications(_)
\* .order('created_at', { ascending: false })
OrderNotifications(rows) ==
  IF rows = {} THEN <<>>
  ELSE LET first == CHOOSE r \in rows : \A q \in rows : q.created_at <= r.created_at
       IN <<first>> \o OrderNotifications(rows \ {first})

\* loadNotifications reading whatever is stored
NotifVisible_All(s, row) == TRUE

\* the rows loadNotifications receives: .eq('user_id', user.id) under the
\* SELECT policy
NotifVisible(s, row) == row.user_id = s /\ NotifSelectPolicy(s, row)

\* loadNotifications: a failed query leaves the list as it is
loadNotifications(s, table, loadError) ==
  IF loadError THEN notifications[s]
  ELSE OrderNotifications({r \in table : NotifVisible(s, r)})

\* filteredNotifications without the 'unread' case
filteredNotifications_NoUnread(list, filter, query) ==
  LET Matches(n) ==
        LET matchesFilter == filter = "all" \/ n.type = filter
            q == ToLowerCase(query)
            matchesSearch ==
              \/ query = ""
              \/ StringIncludes(ToLowerCase(n.title), q)
              \/ StringIncludes(ToLowerCase(n.message), q)
        IN matchesFilter /\ matchesSearch
  IN SelectSeq(list, Matches)

filteredNotifications(list, filter, query) ==
  LET Matches(n) ==
        LET matchesFilter == \/ filter = "all"
                             \/ n.type = filter
                             \/ (filter = "unread" /\ ~n.is_read)
            q == ToLowerCase(query)
            matchesSearch ==
              \/ query = ""
              \/ StringIncludes(ToLowerCase(n.title), q)
              \/ StringIncludes(ToLowerCase(n.message), q)
        IN matchesFilter /\ matchesSearch
  IN SelectSeq(list, Matches)

unreadCount(list) ==
  LET Unread(n) == ~n.is_read IN Len(SelectSeq(list, Unread))

\* the items on screen
ShownNotifications(s) ==
  SeqToSet(filteredNotifications(notifications[s], ncFilter[s], ncSearch[s]))

\* an update that stores nothing
ReadUpdate_Nothing(row) == row

\* .update({ is_read: true })
ReadUpdate(row) == [row EXCEPT !.is_read = TRUE]

\* the component is mounted again: state resets
NotifMount(s) ==
  /\ ncLoading[s] = FALSE
  /\ notifications' = [notifications EXCEPT ![s] = <<>>]
  /\ preferences' = [preferences EXCEPT ![s] = {}]
  /\ ncLoading' = [ncLoading EXCEPT ![s] = TRUE]
  /\ ncFilter' = [ncFilter EXCEPT ![s] = "all"]
  /\ ncSearch' = [ncSearch EXCEPT ![s] = ""]
  /\ lastNotifOp' = NoNotifOp
  /\ UNCHANGED <<db_notifications, ncPending>>
  /\ UNCHANGED NotNotif

\* loadData, run by the effect: loadNotifications and loadPreferences, which
\* both fail when the requests do
NotifLoadData(s, loadError) ==
  /\ ncLoading[s] = TRUE
  /\ notifications' = [notifications EXCEPT ![s] =
                         loadNotifications(s, db_notifications, loadError)]
  /\ preferences' = [preferences EXCEPT ![s] =
                       IF loadError THEN @ ELSE {StoredPreferences(s)}]
  /\ ncLoading' = [ncLoading EXCEPT ![s] = FALSE]
  /\ lastNotifOp' = NoNotifOp
  /\ UNCHANGED <<db_notifications, ncFilter, ncSearch, ncPending>>
  /\ UNCHANGED NotNotif

\* a handler's query ran: the table, the reload that follows a success, the
\* realtime event of the user whose rows changed
NotifWrite(s, kind, id, netError, loadError, table) ==
  /\ db_notifications' = table
  /\ notifications' = [notifications EXCEPT ![s] =
       IF netError THEN @ ELSE loadNotifications(s, table, loadError)]
  /\ ncPending' = ncPending \cup
       {u \in NotifSessions : \E r \in (db_notifications \ table) \cup
                                       (table \ db_notifications) : r.user_id = u}
  /\ lastNotifOp' = [kind |-> kind, actor |-> s, id |-> id, error |-> netError,
                     reloaded |-> ~netError /\ ~loadError]
  /\ UNCHANGED <<preferences, ncLoading, ncFilter, ncSearch>>
  /\ UNCHANGED NotNotif

\* markAsRead(id), from the button of an unread item on screen
markAsRead(s, id, netError, loadError) ==
  /\ ncLoading[s] = FALSE
  /\ \E n \in ShownNotifications(s) : n.id = id /\ ~n.is_read
  /\ LET Hit(r) == r.id = id /\ NotifUpdatePolicy(s, r)
         table == IF netError THEN db_notifications
                  ELSE {IF Hit(r) THEN ReadUpdate(r) ELSE r : r \in db_notifications}
     IN NotifWrite(s, "markAsRead", id, netError, loadError, table)

\* markAllAsRead, from the button shown while unreadCount > 0
markAllAsRead(s, netError, loadError) ==
  /\ ncLoading[s] = FALSE
  /\ unreadCount(notifications[s]) > 0
  /\ LET Hit(r) == r.user_id = s /\ r.is_read = FALSE /\ NotifUpdatePolicy(s, r)
         table == IF netError THEN db_notifications
                  ELSE {IF Hit(r) THEN ReadUpdate(r) ELSE r : r \in db_notifications}
     IN NotifWrite(s, "markAllAsRead", 0, netError, loadError, table)

\* deleteNotification(id), from the button of an item on screen
deleteNotification(s, id, netError, loadError) ==
  /\ ncLoading[s] = FALSE
  /\ \E n \in ShownNotifications(s) : n.id = id
  /\ LET Hit(r) == r.id = id /\ NotifDeletePolicy(s, r)
         table == IF netError THEN db_notifications
                  ELSE {r \in db_notifications : ~Hit(r)}
     IN NotifWrite(s, "deleteNotification", id, netError, loadError, table)

\* deleteAllNotifications, from the button below the items on screen
deleteAllNotifications(s, confirmed, netError, loadError) ==
  /\ ncLoading[s] = FALSE
  /\ ShownNotifications(s) # {}
  /\ IF ~confirmed
     THEN /\ lastNotifOp' = NoNotifOp
          /\ UNCHANGED <<db_notifications, notifications, preferences,
                         ncLoading, ncFilter, ncSearch, ncPending>>
          /\ UNCHANGED NotNotif
     ELSE LET Hit(r) == r.user_id = s /\ NotifDeletePolicy(s, r)
              table == IF netError THEN db_notifications
                       ELSE {r \in db_notifications : ~Hit(r)}
          IN NotifWrite(s, "deleteAllNotifications", 0, netError, loadError, table)

\* the realtime listener: a change of the user's rows runs loadNotifications
RealtimeReload(s, loadError) ==
  /\ s \in ncPending
  /\ ncPending' = ncPending \ {s}
  /\ notifications' = [notifications EXCEPT ![s] =
                         loadNotifications(s, db_notifications, loadError)]
  /\ lastNotifOp' = NoNotifOp
  /\ UNCHANGED <<db_notifications, preferences, ncLoading, ncFilter, ncSearch>>
  /\ UNCHANGED NotNotif

\* a filter button
setNotifFilter(s, f) ==
  /\ ncLoading[s] = FALSE
  /\ ncFilter' = [ncFilter EXCEPT ![s] = f]
  /\ lastNotifOp' = NoNotifOp
  /\ UNCHANGED <<db_notifications, notifications, preferences, ncLoading,
                 ncSearch, ncPending>>
  /\ UNCHANGED NotNotif

\* typing in the search box
setNotifSearch(s, q) ==
  /\ ncLoading[s] = FALSE
  /\ ncSearch' = [ncSearch EXCEPT ![s] = q]
  /\ lastNotifOp' = NoNotifOp
  /\ UNCHANGED <<db_notifications, notifications, preferences, ncLoading,
                 ncFilter, ncPending>>
  /\ UNCHANGED NotNotif

\* the handlers that read and write notifications, in session s
NotifHandlers(s) ==
  \/ NotifMount(s)
  \/ \E le \in BOOLEAN : NotifLoadData(s, le)
  \/ \E id \in 1..MaxNotif : \E ne, le \in BOOLEAN : markAsRead(s, id, ne, le)
  \/ \E ne, le \in BOOLEAN : markAllAsRead(s, ne, le)
  \/ \E id \in 1..MaxNotif : \E ne, le \in BOOLEAN : deleteNotification(s, id, ne, le)
  \/ \E c, ne, le \in BOOLEAN : deleteAllNotifications(s, c, ne, le)
  \/ \E le \in BOOLEAN : RealtimeReload(s, le)

NextNotif == \E s \in NotifSessions : NotifHandlers(s)

\* the one session whose filter and search SpecNotifFilter follows
FilterSession == "res1"

NextNotifFilter ==
  \/ NotifMount(FilterSession)
  \/ \E le \in BOOLEAN : NotifLoadData(FilterSession, le)
  \/ \E f \in NotifFilters : setNotifFilter(FilterSession, f)
  \/ \E q \in NotifSearches : setNotifSearch(FilterSession, q)

\* the kinds of notification the model draws
NotifKinds ==
  {[type |-> "payment_reminder", title |-> "Payment Due",
    message |-> "See the portal"],
   [type |-> "announcement", title |-> "Notice", message |-> "Pay by Friday"],
   [type |-> "system", title |-> "Notice", message |-> "Pool closed"]}

\* the notifications the model draws: of any kind for one user, or of one
\* kind for either user
NotifChoices(users, kinds) ==
  {[user_id |-> u, is_read |-> rd, type |-> k.type, title |-> k.title,
    message |-> k.message] : u \in users, rd \in BOOLEAN, k \in kinds}

\* n stored notifications, notification i as chosen by f[i]
StoredNotifications(n, f) ==
  {[id |-> i, created_at |-> i, user_id |-> f[i].user_id,
    is_read |-> f[i].is_read, type |-> f[i].type, title |-> f[i].title,
    message |-> f[i].message] : i \in 1..n}

\* a table of up to MaxNotif notifications is stored
InitNotifStored(choices) ==
  /\ InitMaint /\ InitPay /\ InitApp /\ InitFin /\ InitRep /\ InitStmt
  /\ notifications = [s \in NotifSessions |-> <<>>]
  /\ preferences = [s \in NotifSessions |-> {}]
  /\ ncLoading = [s \in NotifSessions |-> TRUE]
  /\ ncFilter = [s \in NotifSessions |-> "all"]
  /\ ncSearch = [s \in NotifSessions |-> ""]
  /\ ncPending = {}
  /\ lastNotifOp = NoNotifOp
  /\ \E n \in 0..MaxNotif : \E f \in [1..n -> choices] :
       db_notifications = StoredNotifications(n, f)

\* system notifications of both users
InitNotifUsers ==
  InitNotifStored(NotifChoices(NotifSessions, {k \in NotifKinds : k.type = "system"}))

\* notifications of every kind for the user whose filter is followed
InitNotifKinds == InitNotifStored(NotifChoices({FilterSession}, NotifKinds))

\* ------------------------------------------------------------------------
\* FinancialStatements
\* ------------------------------------------------------------------------
Periods == {"current", "ytd"}

\* the one user whose financial statements are modelled
StatementViewer == "admin1"

\* a year of the model's calendar
DaysPerYear == 12 * DaysPerMonth

\* how far local midnight lies behind UTC midnight, in ticks
ZoneOffset(zone) == IF zone = "west" THEN 1 ELSE 0

RECURSIVE RowsInSomeOrder(_)
\* a select without .order(): the rows in an order the database picks
RowsInSomeOrder(rows) ==
  IF rows = {} THEN <<>>
  ELSE LET r == CHOOSE x \in rows : TRUE
       IN <<r>> \o RowsInSomeOrder(rows \ {r})

\* 'current': thirtyDaysAgo is now moved back 30 days (one month of the
\* model's calendar); 'ytd': yearStart is the local midnight of January 1st
\* of the local year of now
filterByPeriod(txs, per, clock, zone) ==
  LET thirtyDaysAgo == clock - DaysPerMonth * TicksPerDay
      ticksPerYear == DaysPerYear * TicksPerDay
      year == (clock - ZoneOffset(zone)) \div ticksPerYear
      yearStart == year * ticksPerYear + ZoneOffset(zone)
      Current(t) == t.transaction_date * TicksPerDay >= thirtyDaysAgo
      Ytd(t) == t.transaction_date * TicksPerDay >= yearStart
  IN IF per = "current" THEN SelectSeq(txs, Current) ELSE SelectSeq(txs, Ytd)

\* p.status === 'pending' || p.status === 'overdue'
IsReceivable(p) == p.status = "pending" \/ p.status = "overdue"

\* calculateBalanceSheet taking the period's income as cash
calculateBalanceSheet_CashIsIncome(txs, pays, per, clock, zone) ==
  LET filteredTransactions == filterByPeriod(txs, per, clock, zone)
      totalIncome == SumAmount(SelectSeq(filteredTransactions, IsIncome))
      pendingPayments == SumAmount(SelectSeq(pays, IsReceivable))
      cash == totalIncome
      accountsReceivable == pendingPayments
      assets == cash + accountsReceivable
      accountsPayable == 0
      liabilities == accountsPayable
      retainedEarnings == assets - liabilities
  IN [assets |-> [cash |-> cash, accountsReceivable |-> accountsReceivable,
                  total |-> assets],
      liabilities |-> [accountsPayable |-> accountsPayable, total |-> liabilities],
      equity |-> [retainedEarnings |-> retainedEarnings, total |-> retainedEarnings]]

calculateBalanceSheet(txs, pays, per, clock, zone) ==
  LET filteredTransactions == filterByPeriod(txs, per, clock, zone)
      totalIncome == SumAmount(SelectSeq(filteredTransactions, IsIncome))
      totalExpenses == SumAmount(SelectSeq(filteredTransactions, IsExpense))
      pendingPayments == SumAmount(SelectSeq(pays, IsReceivable))
      cash == totalIncome - totalExpenses
      accountsReceivable == pendingPayments
      assets == cash + accountsReceivable
      accountsPayable == 0
      liabilities == accountsPayable
      retainedEarnings == assets - liabilities
  IN [assets |-> [cash |-> cash, accountsReceivable |-> accountsReceivable,
                  total |-> assets],
      liabilities |-> [accountsPayable |-> accountsPayable, total |-> liabilities],
      equity |-> [retainedEarnings |-> retainedEarnings, total |-> retainedEarnings]]

\* the figure shown as "Total Liabilities & Equity"
TotalLiabilitiesAndEquity(bs) == bs.liabilities.total + bs.equity.total

\* the component is mounted again: state resets
StatementsMount ==
  /\ fsLoading = FALSE
  /\ fsTransactions' = <<>>
  /\ fsPayments' = <<>>
  /\ fsLoading' = TRUE
  /\ period' = "current"
  /\ UNCHANGED NotStmt

\* FinancialStatements.loadData, run by the mount effect: an error of either
\* query is thrown before either list is set
StatementsLoadData(transactionsError, paymentsError) ==
  /\ fsLoading = TRUE
  /\ IF transactionsError \/ paymentsError
     THEN UNCHANGED <<fsTransactions, fsPayments>>
     ELSE /\ fsTransactions' =
               OrderByTransactionDateDesc(
                 {t \in db_transactions : TransactionSelectPolicy(StatementViewer, t)})
          /\ fsPayments' =
               RowsInSomeOrder(
                 {r \in db_payments : PaymentSelectPolicy(StatementViewer, r)})
  /\ fsLoading' = FALSE
  /\ UNCHANGED period
  /\ UNCHANGED NotStmt

\* the "Last 30 Days" and "Year to Date" buttons
setPeriod(per) ==
  /\ fsLoading = FALSE
  /\ period' = per
  /\ UNCHANGED <<fsTransactions, fsPayments, fsLoading>>
  /\ UNCHANGED NotStmt

NextStmt ==
  \/ StatementsMount
  \/ \E te, pe \in BOOLEAN : StatementsLoadData(te, pe)
  \/ \E per \in Periods : setPeriod(per)

\* the ledger rows drawn: December 2nd of year 0, January 1st and February
\* 1st of year 1
StatementTxChoices ==
  {[type |-> ty, amount |-> a, transaction_date |-> d] :
      ty \in {"income", "expense"}, a \in {100, 250},
      d \in {DaysPerYear - 1, DaysPerYear, DaysPerYear + DaysPerMonth}}

StatementLedger(n, f) ==
  {[id |-> i, type |-> f[i].type,
    category |-> IF f[i].type = "income" THEN "hoa_fees" ELSE "repairs",
    amount |-> f[i].amount, transaction_date |-> f[i].transaction_date,
    property_id |-> NULL, payment_method |-> "bank_transfer",
    created_by |-> "admin1"] : i \in 1..n}

\* the payments drawn: every status but 'cancelled'
StatementPayChoices ==
  {[status |-> st, amount |-> a] :
      st \in {"pending", "overdue", "paid"}, a \in {40, PaymentAmount}}

StatementPayments(n, f) ==
  {[id |-> i, property_id |-> "prop1", amount |-> f[i].amount,
    payment_type |-> "monthly_dues",
    payment_date |-> IF f[i].status = "paid" THEN DaysPerYear ELSE NoNumber,
    due_date |-> DaysPerYear, status |-> f[i].status,
    payment_method |-> IF f[i].status = "paid" THEN "online" ELSE NULL] : i \in 1..n}

\* the statements are read on February 2nd of year 1, at midnight or later
StatementClocks ==
  {(DaysPerYear + DaysPerMonth + 1) * TicksPerDay,
   (DaysPerYear + DaysPerMonth + 1) * TicksPerDay + 1}

\* any ledger of up to MaxStmtTx rows and any MaxStmtPay payments are
\* stored; the browser is in either zone
InitStatements ==
  /\ InitMaint /\ InitApp /\ InitFin /\ InitFilt /\ InitNotif /\ InitStmt
  /\ payments = [s \in PaySessions |-> <<>>]
  /\ ppLoading = [s \in PaySessions |-> TRUE]
  /\ selectedPayment = [s \in PaySessions |-> {}]
  /\ showPaymentMethod = [s \in PaySessions |-> {}]
  /\ paypalShow = [s \in PaySessions |-> {}]
  /\ lastPayOp = NoPayOp
  /\ now \in StatementClocks
  /\ \E n \in 0..MaxStmtTx : \E f \in [1..n -> StatementTxChoices] :
       /\ db_transactions = StatementLedger(n, f)
       /\ txNextId = n + 1
  /\ \E n \in 0..MaxStmtPay : \E f \in [1..n -> StatementPayChoices] :
       /\ db_payments = StatementPayments(n, f)
       /\ payNextId = n + 1
  /\ rpTransactions = <<>>
  /\ rpLoading = TRUE
  /\ dateRange = "90"
  /\ reportType = "overview"
  /\ tz \in TimeZones

\* ------------------------------------------------------------------------
\* Specifications
\* ------------------------------------------------------------------------
Init ==
  InitMaint /\ InitPay /\ InitApp /\ InitFin /\ InitRep /\ InitNotif /\ InitStmt

\* the maintenance screen, one admin and one resident session
SpecMaint == Init /\ [][NextMaint]_vars

InitStored ==
  /\ InitStoredMaint
  /\ InitPay /\ InitApp /\ InitFin /\ InitRep /\ InitNotif /\ InitStmt

\* the financial statements over drawn tables
SpecStatements == InitStatements /\ [][NextStmt]_vars

\* the maintenance screen over a table that already holds requests
SpecStored == InitStored /\ [][NextStored]_vars

\* the payment portal, one admin and one resident session
SpecPay == Init /\ [][NextPay]_vars

\* one browser: sign-in, navigation, sign-out
SpecApp == Init /\ [][NextApp]_vars

\* the dashboard and the transaction list over any stored ledger
SpecLedger == InitLedger /\ [][NextFin]_vars

\* the dashboard over any stored table of maintenance requests
SpecDash == InitDash /\ [][NextFin]_vars

\* the reports page over any stored ledger, in either time zone
SpecReports == InitReports /\ [][NextRep]_vars

\* the payment list, its filter and its search over any stored payments
SpecOverdue == InitOverdue /\ [][NextOverdue]_vars

\* the notification centers of two users over any stored notifications
SpecNotif == InitNotifUsers /\ [][NextNotif]_vars

\* one user's notification center with its filter and its search
SpecNotifFilter == InitNotifKinds /\ [][NextNotifFilter]_vars

\* ------------------------------------------------------------------------
\* Maintenance requests: role-gated mutation rules
\* ------------------------------------------------------------------------
OwnPending(row, uid) == row.requested_by = uid /\ row.status = "pending"

\* the stored rows a step modified or removed
TouchedRequests == db_maintenance_requests \ db_maintenance_requests'

\* C1: every update or delete query a non-admin session issues matches only
\* stored rows with requested_by = that user and status = 'pending', and no
\* stored row of another user, or with another status, is modified or
\* removed in a step of a non-admin session.
C1_ResidentOnlyOwnPending ==
  [][LET op == lastMaintOp'
     IN ~IsAdminDb(op.actor) =>
          /\ op.kind \in {"update", "delete"} =>
               \A r \in op.matched : OwnPending(r, op.actor)
          /\ \A r \in TouchedRequests : OwnPending(r, op.actor)]_vars

\* a resident confirmed the deletion of a displayed row whose stored status
\* is no longer 'pending' (the displayed list was stale)
C1_Witness ==
  /\ lastMaintOp.kind = "delete" /\ lastMaintOp.actor = "res1"
  /\ ~lastMaintOp.error
  /\ \E r \in db_maintenance_requests :
       r.id = lastMaintOp.id /\ r.requested_by = "res1" /\ r.status # "pending"

\* C2: an edit or a confirmed delete by an admin whose query returns no
\* error takes effect on the stored request with that id, whatever its
\* requested_by and status: the delete removes it, the update stores the
\* submitted title, status and admin fields.
C2_AdminActsOnAnything ==
  [][LET op == lastMaintOp'
     IN (IsAdminDb(op.actor) /\ ~op.error /\ op.kind \in {"update", "delete"}) =>
          \A r \in db_maintenance_requests :
            r.id = op.id =>
              /\ r \in op.affected
              /\ op.kind = "delete" =>
                   ~\E q \in db_maintenance_requests' : q.id = op.id
              /\ op.kind = "update" =>
                   \E q \in db_maintenance_requests' : \E pl \in op.payload :
                     /\ q.id = op.id
                     /\ q.title = pl.title /\ q.status = pl.status
                     /\ q.estimated_cost = pl.estimated_cost
                     /\ q.scheduled_date = pl.scheduled_date
                     /\ q.assigned_vendor = pl.assigned_vendor]_vars

\* an admin's update went through on a request of a resident that was
\* stored as completed
C2_Witness ==
  /\ lastMaintOp.kind = "update" /\ lastMaintOp.actor = "admin1"
  /\ ~lastMaintOp.error
  /\ \E r \in lastMaintOp.affected :
       r.requested_by = "res1" /\ r.status = "completed"

\* C3: when a non-admin session submits an edit of, or confirms deletion
\* of, a request stored as its own and pending, and the query returns no
\* error, the stored request is updated, respectively removed.
C3_ResidentOwnPendingTakesEffect ==
  LET op == lastMaintOp
  IN (~IsAdminDb(op.actor) /\ ~op.error /\ op.kind \in {"update", "delete"}
      /\ \E r \in op.matched : OwnPending(r, op.actor)) =>
       /\ op.kind = "delete" =>
            ~\E q \in db_maintenance_requests : q.id = op.id
       /\ op.kind = "update" =>
            \E q \in db_maintenance_requests : \E pl \in op.payload :
              q.id = op.id /\ q.title = pl.title


\* ------------------------------------------------------------------------
\* Payments: the status transition and the ledger
\* ------------------------------------------------------------------------
\* the stored payment with the id of the last handler run
StoredPayment(id) == {r \in db_payments : r.id = id}

\* C4: whenever handlePaymentStatusUpdate changes a payment's stored status
\* to 'paid' (the update passed for an admin or the owning resident, and the
\* insert reached the database), an income transaction is stored whose amount
\* and property_id are the payment's and whose category is 'hoa_fees' for
\* 'monthly_dues' and 'other_income' otherwise.
C4_PaidInsertsLedgerRow ==
  LET op == lastPayOp
  IN (op.kind = "status" /\ op.status = "paid" /\ ~op.error /\ ~op.insertLost) =>
       \A r \in op.target :
         r.status # "paid" =>
           \E t \in db_transactions :
             /\ t \in op.inserted
             /\ t.type = "income"
             /\ t.amount = r.amount /\ t.property_id = r.property_id
             /\ t.category = IF r.payment_type = "monthly_dues" THEN "hoa_fees"
                             ELSE "other_income"

\* C5: every payment whose status the portal sets to 'paid' has payment_date
\* set to the current date by that update, and an update to another status
\* leaves payment_date and payment_method as they were stored.
C5_PaymentDateRecorded ==
  LET op == lastPayOp
  IN (op.kind = "status" /\ ~op.error) =>
       \A r \in op.target : \E q \in StoredPayment(r.id) :
         /\ q.status = op.status
         /\ op.status = "paid" => q.payment_date = Today(now)
         /\ op.status # "paid" => /\ q.payment_date = r.payment_date
                                  /\ q.payment_method = r.payment_method

\* a payment created on an earlier day was marked paid: its payment_date is
\* a date other than its due date and other than the initial day
C5_Witness ==
  /\ lastPayOp.kind = "status" /\ lastPayOp.status = "paid" /\ ~lastPayOp.error
  /\ \E r \in lastPayOp.target : r.status = "pending" /\ r.payment_date = NoNumber
  /\ Today(now) > 0

\* C6: after a PayPal order for a stored pending payment is approved and
\* captured, and the update reached the database, the payment's stored
\* status is 'paid' and the income transaction for it is recorded.
C6_PayPalMarksPaid ==
  LET op == lastPayOp
  IN (op.kind = "status" /\ op.method = "paypal" /\ ~op.netError /\ ~op.insertLost) =>
       \A r \in op.target :
         r.status = "pending" =>
           /\ \E q \in StoredPayment(r.id) : q.status = "paid"
           /\ \E t \in db_transactions : t \in op.inserted /\ t.amount = r.amount

\* ------------------------------------------------------------------------
\* C7  The sidebar offers a resident (and a user whose profile has not
\*     loaded) exactly Dashboard, Maintenance, Payments, Announcements and
\*     Notifications; Transactions, Properties, Reports and Financial
\*     Statements are offered to the admin role only, which sees all nine.
\* ------------------------------------------------------------------------
ResidentViews ==
  {"dashboard", "maintenance", "payments", "announcements", "notifications"}

AdminOnlyViews == {"transactions", "properties", "reports", "statements"}

OfferedViews ==
  {visibleItems(profile)[i].id : i \in 1..Len(visibleItems(profile))}

C7_RoleBasedMenu ==
  /\ (profile = NULL \/ profile = "resident") => OfferedViews = ResidentViews
  /\ profile = "admin" =>
       /\ OfferedViews = ResidentViews \cup AdminOnlyViews
       /\ Len(visibleItems(profile)) = 9
  /\ \A v \in AdminOnlyViews : v \in OfferedViews => profile = "admin"

C7_Witness ==
  /\ user = "res1" /\ profile = "resident" /\ authLoading = FALSE
  /\ activeView = "payments"

\* ------------------------------------------------------------------------
\* C8  The Transactions page is admin only: a signed-in user who is not an
\*     admin is never shown the TransactionList.
\* ------------------------------------------------------------------------
C8_TransactionsAdminOnly ==
  (authLoading = FALSE /\ user # NULL /\ Role[user] # "admin")
    => AppContent # "TransactionList"

\* ------------------------------------------------------------------------
\* C9  Total income is the sum of the income rows, total expenses the sum
\*     of the expense rows, the balance their difference; the Dashboard and
\*     the TransactionList compute the same three values from the same rows.
\* ------------------------------------------------------------------------
RECURSIVE SumOfRows(_)
SumOfRows(rows) ==
  IF rows = {} THEN 0
  ELSE LET r == CHOOSE x \in rows : TRUE
       IN r.amount + SumOfRows(rows \ {r})

IncomeOf(rows) == SumOfRows({t \in rows : t.type = "income"})
ExpensesOf(rows) == SumOfRows({t \in rows : t.type = "expense"})

C9_TotalsAgree ==
  /\ \A s \in FinSessions : dashLoading[s] = FALSE =>
       LET rows == SeqToSet(fetched[s].transactions)
       IN /\ stats[s].totalIncome = IncomeOf(rows)
          /\ stats[s].totalExpenses = ExpensesOf(rows)
          /\ stats[s].balance = IncomeOf(rows) - ExpensesOf(rows)
  /\ \A s \in FinSessions : tlLoading[s] = FALSE =>
       LET rows == SeqToSet(transactions[s])
           t == TransactionListTotals(transactions[s])
       IN /\ t.totalIncome = IncomeOf(rows)
          /\ t.totalExpenses = ExpensesOf(rows)
          /\ t.balance = IncomeOf(rows) - ExpensesOf(rows)
  /\ \A s1, s2 \in FinSessions :
       ( /\ dashLoading[s1] = FALSE /\ tlLoading[s2] = FALSE
         /\ SeqToSet(fetched[s1].transactions) = SeqToSet(transactions[s2]) )
       => LET t == TransactionListTotals(transactions[s2])
          IN /\ stats[s1].totalIncome = t.totalIncome
             /\ stats[s1].totalExpenses = t.totalExpenses
             /\ stats[s1].balance = t.balance

C9_Witness ==
  /\ dashLoading["admin1"] = FALSE /\ tlLoading["admin1"] = FALSE
  /\ fetched["admin1"].transactions = transactions["admin1"]
  /\ Len(transactions["admin1"]) = 3
  /\ stats["admin1"].totalIncome = 350
  /\ stats["admin1"].totalExpenses = 250
  /\ stats["admin1"].balance = 100

\* ------------------------------------------------------------------------
\* C10 After the Dashboard has loaded its maintenance requests, Active
\*     Maintenance is the number of requests visible to the user that are
\*     in progress, and the pending figure the number that are pending.
\* ------------------------------------------------------------------------
VisibleRequests(s) ==
  {r \in db_maintenance_requests : MaintSelectPolicy(s, r)}

C10_MaintenanceCounts ==
  \A s \in FinSessions :
    (dashLoading[s] = FALSE /\ fetched[s].maintenanceOk) =>
      /\ stats[s].activeMaintenance =
           Cardinality({r \in VisibleRequests(s) : r.status = "in_progress"})
      /\ stats[s].upcomingMaintenance =
           Cardinality({r \in VisibleRequests(s) : r.status = "pending"})

\* ------------------------------------------------------------------------
\* Reports: category and monthly rollups
\* ------------------------------------------------------------------------
\* the in-range transactions of the reports page, as a set of rows
InRangeRows ==
  SeqToSet(filterTransactionsByDateRange(rpTransactions, dateRange, now))

RECURSIVE SumCount(_)
SumCount(sq) == IF sq = <<>> THEN 0 ELSE Head(sq).count + SumCount(Tail(sq))

CategoryRollupOk(type) ==
  LET res == getCategoryData(type, rpTransactions, dateRange, now)
      rows == {t \in InRangeRows : t.type = type}
      cats == {t.category : t \in rows}
      total == IF type = "income"
               THEN ReportTotals(rpTransactions, dateRange, now).totalIncome
               ELSE ReportTotals(rpTransactions, dateRange, now).totalExpenses
  IN /\ Len(res) = Cardinality(cats)
     /\ \A c \in cats :
          LET of == {t \in rows : t.category = c}
              hits == {i \in 1..Len(res) : res[i].category = ReplaceUnderscores(c)}
          IN /\ Cardinality(hits) = 1
             /\ \A i \in hits : /\ res[i].amount = SumOfRows(of)
                                /\ res[i].count = Cardinality(of)
     /\ SumAmount(res) = total
     /\ SumCount(res) = Cardinality(rows)
     /\ \A i, j \in 1..Len(res) : i < j => res[i].amount >= res[j].amount

\* C11: getCategoryData(type) has exactly one entry per distinct category
\* among the in-range transactions of the type, with the category's sum and
\* count; the amounts add up to the type's total, the counts to the number
\* of in-range transactions of the type; entries descend by amount.
C11_CategoryRollup ==
  rpLoading = FALSE => CategoryRollupOk("income") /\ CategoryRollupOk("expense")

\* three in-range income rows in two categories; the category loaded first
\* has the smaller sum and comes second
C11_Witness ==
  /\ rpLoading = FALSE
  /\ Len(rpTransactions) = 3
  /\ rpTransactions[1].category = "hoa_fees"
  /\ LET res == getCategoryData("income", rpTransactions, dateRange, now)
     IN /\ Len(res) = 2
        /\ res[1].category = "other income" /\ res[1].count = 2
        /\ res[1].amount = 350
        /\ res[2].category = "hoa fees" /\ res[2].amount = 250

RECURSIVE SumIncome(_)
SumIncome(sq) == IF sq = <<>> THEN 0 ELSE Head(sq).income + SumIncome(Tail(sq))

RECURSIVE SumExpenses(_)
SumExpenses(sq) ==
  IF sq = <<>> THEN 0 ELSE Head(sq).expenses + SumExpenses(Tail(sq))

\* the calendar month of a stored date, as the label names it
CalendarMonth(t) ==
  LET m == t.transaction_date \div DaysPerMonth
  IN [mon |-> MonthNames[(m % 12) + 1], year |-> m \div 12]

\* C12: getMonthlyData has exactly one entry per calendar month (year and
\* month) with an in-range transaction; its income and expenses are the
\* sums of that month's income and expense amounts, net = income - expenses;
\* over all entries income and expenses add up to the report's Total Income
\* and Total Expenses of the selected date range.
C12_MonthlyRollup ==
  rpLoading = FALSE =>
    LET res == getMonthlyData(rpTransactions, dateRange, now, tz)
        months == {CalendarMonth(t) : t \in InRangeRows}
        totals == ReportTotals(rpTransactions, dateRange, now)
    IN /\ Len(res) = Cardinality(months)
       /\ \A m \in months :
            LET of == {t \in InRangeRows : CalendarMonth(t) = m}
                hits == {i \in 1..Len(res) : res[i].month = m}
            IN /\ Cardinality(hits) = 1
               /\ \A i \in hits :
                    /\ res[i].income = IncomeOf(of)
                    /\ res[i].expenses = ExpensesOf(of)
       /\ \A i \in 1..Len(res) : res[i].net = res[i].income - res[i].expenses
       /\ SumIncome(res) = totals.totalIncome
       /\ SumExpenses(res) = totals.totalExpenses

\* ------------------------------------------------------------------------
\* Payment portal: overdue detection
\* ------------------------------------------------------------------------
\* C13: with the 'Overdue' filter selected and an empty search, the payments
\* listed are exactly the payments that carry the Overdue badge (status
\* 'pending' with due_date before now), and the Overdue counter is their
\* number.
C13_OverdueConsistent ==
  \A s \in OverdueSessions :
    (ppLoading[s] = FALSE /\ ppFilter[s] = "overdue" /\ searchQuery[s] = "") =>
      LET listed == filteredPayments(payments[s], ppFilter[s], searchQuery[s])
          flagged == {p \in SeqToSet(payments[s]) : isOverdue(p, now)}
      IN /\ SeqToSet(listed) = flagged
         /\ overdueCount(payments[s], now) = Cardinality(flagged)
         /\ overdueCount(payments[s], now) = Len(listed)

\* ------------------------------------------------------------------------
\* Notifications
\* ------------------------------------------------------------------------
\* the stored notifications that are not those of user u
NotOf(table, u) == {r \in table : r.user_id # u}

\* C14: when markAllAsRead succeeds and the list has reloaded, every stored
\* notification of the user has is_read = true and unreadCount is 0; the
\* notifications of other users are as before, and none is created or
\* deleted.
C14_MarkAllAsRead ==
  [][LET op == lastNotifOp'
     IN (op.kind = "markAllAsRead" /\ ~op.error /\ op.reloaded) =>
          /\ \A r \in db_notifications' : r.user_id = op.actor => r.is_read
          /\ unreadCount(notifications'[op.actor]) = 0
          /\ NotOf(db_notifications', op.actor) = NotOf(db_notifications, op.actor)
          /\ {r.id : r \in db_notifications'} = {r.id : r \in db_notifications}]_vars

\* res1 marked all as read while two of its notifications and an unread one
\* of the admin are stored
C14_Witness ==
  /\ lastNotifOp.kind = "markAllAsRead" /\ lastNotifOp.actor = "res1"
  /\ ~lastNotifOp.error /\ lastNotifOp.reloaded
  /\ Len(notifications["res1"]) = 2
  /\ \E r \in db_notifications : r.user_id = "admin1" /\ ~r.is_read

RECURSIVE SubList(_, _, _)
\* the notifications of list that the filter and the search ask for, in order
SubList(list, filter, search) ==
  IF list = <<>> THEN <<>>
  ELSE LET n == Head(list)
           wanted ==
             /\ \/ filter = "all"
                \/ (filter = "unread" /\ n.is_read = FALSE)
                \/ n.type = filter
             /\ \/ search = ""
                \/ StringIncludes(ToLowerCase(n.title), ToLowerCase(search))
                \/ StringIncludes(ToLowerCase(n.message), ToLowerCase(search))
       IN (IF wanted THEN <<n>> ELSE <<>>) \o SubList(Tail(list), filter, search)

\* C15: filteredNotifications is exactly the sub-list, in order, of the
\* loaded notifications that match the filter ('all', or 'unread' and
\* unread, or the type) and the search (empty, or found case-insensitively
\* in title or message); unreadCount is the number of loaded notifications
\* with is_read = false whatever the filter and the search.
C15_NotificationFiltering ==
  LET s == FilterSession
      list == notifications[s]
  IN ncLoading[s] = FALSE =>
       /\ filteredNotifications(list, ncFilter[s], ncSearch[s])
            = SubList(list, ncFilter[s], ncSearch[s])
       /\ unreadCount(list)
            = Cardinality({i \in 1..Len(list) : list[i].is_read = FALSE})

\* three notifications are loaded, the filter is 'unread' and the search
\* 'Pay': one unread notification matches, another unread one does not
C15_Witness ==
  LET s == FilterSession
  IN /\ ncLoading[s] = FALSE /\ ncFilter[s] = "unread" /\ ncSearch[s] = "Pay"
     /\ Len(notifications[s]) = 3
     /\ unreadCount(notifications[s]) = 2
     /\ Len(filteredNotifications(notifications[s], ncFilter[s], ncSearch[s])) = 1
     /\ \E i \in 1..3 : /\ notifications[s][i].is_read
                        /\ notifications[s][i].type = "payment_reminder"

\* C16: no operation of a user's notification center reads another user's
\* stored notification into the list, marks it read or deletes it.
C16_OwnNotificationsOnly ==
  [][/\ \A s \in NotifSessions : \A i \in 1..Len(notifications'[s]) :
          notifications'[s][i].user_id = s
     /\ lastNotifOp'.kind # "none" =>
          NotOf(db_notifications', lastNotifOp'.actor)
            = NotOf(db_notifications, lastNotifOp'.actor)]_vars

\* res1 deleted one of its notifications while the admin's are stored
C16_Witness ==
  /\ lastNotifOp.kind = "deleteNotification" /\ lastNotifOp.actor = "res1"
  /\ ~lastNotifOp.error
  /\ \A r \in db_notifications : r.id # lastNotifOp.id
  /\ Cardinality(NotOf(db_notifications, "res1")) = 2

\* ------------------------------------------------------------------------
\* MaintenanceForm: what a submission writes
\* ------------------------------------------------------------------------
\* status 'pending' and the three admin fields null
PendingAndBare(r) ==
  /\ r.status = "pending"
  /\ r.estimated_cost = NoNumber
  /\ r.scheduled_date = NULL
  /\ r.assigned_vendor = NULL

\* the rows a step inserted or changed
WrittenRequests == db_maintenance_requests' \ db_maintenance_requests

\* C17: every payload a non-admin session submits through the form (create
\* or edit) carries status 'pending' and null estimated_cost, scheduled_date
\* and assigned_vendor, and every row stored or changed by a step of a
\* non-admin session has that shape: a row written with another status or a
\* non-null admin field is written by an admin's submission.
C17_NonAdminWritesPending ==
  [][LET op == lastMaintOp'
     IN /\ ~IsAdminDb(op.actor) => \A pl \in op.payload : PendingAndBare(pl)
        /\ \A r \in WrittenRequests :
             ~PendingAndBare(r) =>
               IsAdminDb(op.actor) /\ op.kind \in {"insert", "update"}]_vars

\* a resident submitted an edit of their own pending request on which a
\* cost, a date and a vendor were stored
C17_Witness ==
  /\ lastMaintOp.kind = "update" /\ lastMaintOp.actor = "res1"
  /\ ~lastMaintOp.error
  /\ \E r \in lastMaintOp.matched :
       r.estimated_cost = 50 /\ r.scheduled_date = "d1" /\ r.assigned_vendor = "v1"
  /\ \E pl \in lastMaintOp.payload : PendingAndBare(pl)

\* C18: for every edit submitted on an existing request, the stored
\* requested_by of that request after the update equals the stored
\* requested_by before it, also when that was null.
C18_EditKeepsRequester ==
  [][LET op == lastMaintOp'
     IN op.kind = "update" =>
          \A r \in db_maintenance_requests :
            r.id = op.id =>
              \E q \in db_maintenance_requests' :
                q.id = r.id /\ q.requested_by = r.requested_by]_vars

\* ------------------------------------------------------------------------
\* MaintenanceList: the loaded list
\* ------------------------------------------------------------------------
\* the stored requests the user of session s is to see
RequestsOf(s) ==
  IF s = NoUser THEN {}
  ELSE IF IsAdmin(s) THEN db_maintenance_requests
  ELSE {r \in db_maintenance_requests : r.requested_by = s}

\* C19: after loadRequests completes without error, the displayed list of
\* a non-admin user holds exactly the stored requests with requested_by =
\* that user, the list of an admin holds every stored request, each once
\* and ordered by created_at descending, and with no signed-in user the
\* list is empty; loading is false after every run of loadRequests.
C19_LoadRequestsList ==
  LET op == lastMaintOp
      s == op.actor
  IN op.kind \in {"select", "no_user"} =>
       /\ mlLoading[s] = FALSE
       /\ ~op.error =>
            /\ SeqToSet(requests[s]) = RequestsOf(s)
            /\ Len(requests[s]) = Cardinality(RequestsOf(s))
            /\ \A i, j \in 1..Len(requests[s]) :
                 i < j => requests[s][i].created_at >= requests[s][j].created_at

\* an admin loaded two stored requests, one of a resident and one of
\* somebody else
C19_Witness ==
  /\ lastMaintOp.kind = "select" /\ lastMaintOp.actor = "admin1"
  /\ ~lastMaintOp.error
  /\ Len(requests["admin1"]) = 2
  /\ \E i, j \in 1..2 : /\ requests["admin1"][i].requested_by = "res1"
                        /\ requests["admin1"][j].requested_by # "res1"

\* C20: whenever handleDelete removes a request from the displayed list
\* and closes the confirmation, no stored maintenance request has that id
\* any more; and when the delete query returns an error, the displayed list
\* and the open confirmation are unchanged.
C20_DeleteListAgreesWithStore ==
  [][LET op == lastMaintOp'
     IN op.kind = "delete" =>
          /\ (deleteConfirmId'[op.actor] = 0
              /\ ~\E shown \in SeqToSet(requests'[op.actor]) : shown.id = op.id) =>
               ~\E r \in db_maintenance_requests' : r.id = op.id
          /\ op.error =>
               /\ requests'[op.actor] = requests[op.actor]
               /\ deleteConfirmId'[op.actor] = deleteConfirmId[op.actor]]_vars

\* ------------------------------------------------------------------------
\* Payments: errors, frame and transitions of the status update
\* ------------------------------------------------------------------------
\* C21: when the payment update of handlePaymentStatusUpdate returns an
\* error, no transaction is inserted, no stored payment changes, and the
\* displayed payments of that session stay as they were (no reload).
C21_UpdateErrorNoEffect ==
  [][LET op == lastPayOp'
     IN (op.kind = "status" /\ op.error) =>
          /\ db_transactions' = db_transactions
          /\ op.inserted = {}
          /\ db_payments' = db_payments
          /\ payments'[op.actor] = payments[op.actor]]_vars

\* an admin's confirmation of a displayed pending payment as paid failed in
\* transit
C21_Witness ==
  /\ lastPayOp.kind = "status" /\ lastPayOp.error /\ lastPayOp.netError
  /\ lastPayOp.actor = "admin1" /\ lastPayOp.status = "paid"
  /\ lastPayOp.method = "online" /\ ~lastPayOp.insertLost
  /\ \E p \in SeqToSet(payments["admin1"]) :
       p.id = lastPayOp.id /\ p.status = "pending"

\* C22: a status update to anything other than 'paid' and a payment
\* deletion leave the stored ledger transactions as they were, and
\* handleDeletePayment changes no stored payment when the confirmation is
\* declined.
C22_LedgerFrame ==
  [][LET op == lastPayOp'
     IN /\ (op.kind = "status" /\ op.status # "paid") =>
             db_transactions' = db_transactions /\ op.inserted = {}
        /\ op.kind \in {"delete", "declined"} =>
             db_transactions' = db_transactions
        /\ op.kind = "declined" =>
             /\ db_payments' = db_payments
             /\ payments'[op.actor] = payments[op.actor]]_vars

\* an admin deleted a stored payment while the ledger held a transaction
C22_Witness ==
  /\ lastPayOp.kind = "delete" /\ ~lastPayOp.error
  /\ lastPayOp.target # {}
  /\ db_payments = {}
  /\ db_transactions # {}

\* the income transactions recorded for a payment: the ledger rows with the
\* payment's property and amount (the ledger holds no payment id)
LedgerRowsOf(p) ==
  {t \in db_transactions : /\ t.type = "income"
                           /\ t.property_id = p.property_id
                           /\ t.amount = p.amount}

\* C23: in every reachable state each stored payment with status 'paid'
\* has exactly one income transaction recorded for it.
C23_OneLedgerRowPerPaidPayment ==
  \A p \in db_payments :
    p.status = "paid" => Cardinality(LedgerRowsOf(p)) = 1

\* a paid payment for which two income transactions are stored
C23_TwoLedgerRows ==
  \E p \in db_payments : p.status = "paid" /\ Cardinality(LedgerRowsOf(p)) >= 2

\* C24: a stored payment changes status only from 'pending' to 'paid' or
\* from 'pending' to 'cancelled', the latter in a step of an admin; a
\* payment stored as 'paid' or 'cancelled' keeps its status in every step.
C24_StatusOnlyFromPending ==
  [][\A r \in db_payments : \A q \in db_payments' :
       (q.id = r.id /\ q.status # r.status) =>
         /\ r.status = "pending"
         /\ q.status \in {"paid", "cancelled"}
         /\ q.status = "cancelled" => IsAdminDb(lastPayOp'.actor)]_vars

\* ------------------------------------------------------------------------
\* Reports: the order of the Monthly Trends
\* ------------------------------------------------------------------------
\* the calendar month a label "Mon YYYY" names, counted from January of year 0
MonthNumber(label) ==
  label.year * 12 + (CHOOSE i \in 1..12 : MonthNames[i] = label.mon) - 1

\* C26: the entries getMonthlyData returns are ordered by calendar month
\* ascending, the earlier year-month first.
C26_MonthlyChronological ==
  rpLoading = FALSE =>
    LET res == getMonthlyData(rpTransactions, dateRange, now, tz)
    IN \A i, j \in 1..Len(res) :
         i < j => MonthNumber(res[i].month) < MonthNumber(res[j].month)

\* ------------------------------------------------------------------------
\* Financial statements: the balance sheet
\* ------------------------------------------------------------------------
\* the stored transactions of the selected period: dated within the last
\* 30 days ('current') or since local midnight of January 1st ('ytd')
PeriodRows ==
  LET start == IF period = "current" THEN now - DaysPerMonth * TicksPerDay
               ELSE ((now - ZoneOffset(tz)) \div (DaysPerYear * TicksPerDay))
                      * (DaysPerYear * TicksPerDay) + ZoneOffset(tz)
  IN {t \in db_transactions : t.transaction_date * TicksPerDay >= start}

\* C25: for the loaded transactions and payments and either period,
\* calculateBalanceSheet yields cash = period income - period expenses,
\* accountsReceivable = the sum of the amounts of the payments with status
\* 'pending' or 'overdue', assets.total = cash + accountsReceivable, and
\* assets.total = liabilities.total + equity.total.
C25_BalanceSheetIdentity ==
  fsLoading = FALSE /\ Len(fsTransactions) = Cardinality(db_transactions)
                    /\ Len(fsPayments) = Cardinality(db_payments) =>
    LET bs == calculateBalanceSheet(fsTransactions, fsPayments, period, now, tz)
    IN /\ bs.assets.cash = IncomeOf(PeriodRows) - ExpensesOf(PeriodRows)
       /\ bs.assets.accountsReceivable =
            SumOfRows({p \in db_payments : p.status \in {"pending", "overdue"}})
       /\ bs.assets.total = bs.assets.cash + bs.assets.accountsReceivable
       /\ bs.assets.total = TotalLiabilitiesAndEquity(bs)

\* the year-to-date sheet over a ledger with an expense in the period and
\* an income before it, and a pending and an overdue payment
C25_Witness ==
  /\ fsLoading = FALSE /\ period = "ytd"
  /\ Len(fsTransactions) = 2 /\ Len(fsPayments) = 2
  /\ \E t \in PeriodRows : t.type = "expense"
  /\ \E t \in db_transactions \ PeriodRows : t.type = "income"
  /\ \E p, q \in db_payments : p.status = "pending" /\ q.status = "overdue"

================================================================
